---- MODULE Spec2Model ----
(***************************************************************************)
(* TaskForge: resilience primitives (circuit breaker, breaker registry,    *)
(* multi-key failover pool) and the delivery path to the project-          *)
(* management API, modelled from apps/core.                                *)
(***************************************************************************)
EXTENDS Integers, Sequences, FiniteSets, TLC

(***************************************************************************)
(* Bounds of the model.                                                    *)
(***************************************************************************)
NThreads == 2        \* concurrent callers of one breaker / of the registry
TickStep == 30       \* breaker runs: seconds between two instants of the clock
MaxTime == 120       \* breaker runs: last instant of the clock
KeyTickStep == 3     \* key-pool runs: seconds between two instants of the clock
KeyMaxTime == 12     \* key-pool runs: last instant of the clock
MaxFailures == 6     \* cap on CircuitBreaker.failure_count
MaxSuccesses == 4    \* cap on CircuitBreaker.success_count
NKeys == 3           \* number of Fireflies API keys (len(api_keys))
MaxCalls == 3        \* cap on the recorded get_next_available_key calls
MaxTimers == 2       \* cap on the pending reactivate_key timer threads
MaxRequests == 3     \* cap on the per-dependency request counters
NTasks == 2          \* ProcessedTaskData rows
MaxExtracted == 2    \* tasks the LLM extracts from one transcript
MaxRuns == 1         \* transcripts processed by the end-to-end pipeline
MaxItems == 6         \* tasks extracted during one run
MaxTranscripts == 2   \* transcripts retrieved by one pipeline run
MaxExecutions == 3    \* executions of _execute_query_with_retry
NGeminiTasks == 1    \* GeminiProcessedTask rows
NTranscripts == 2    \* distinct Fireflies transcript ids
NPayloads == 2       \* distinct raw payloads the upstream sends for one id
MaxPages == 2        \* pages the upstream answers during one fetch
NPromptHashes == 1   \* distinct prompt hashes of the transcripts
NContents == 2       \* distinct transcript contents under one prompt hash
MaxUpstream == 51    \* transcripts the upstream holds during one paginated fetch

Threads == 1..NThreads
NoTime == -1         \* Python None for an Optional[datetime]

(***************************************************************************)
(* circuit_breaker.py: CircuitBreaker.__init__ defaults.                   *)
(***************************************************************************)
failure_threshold == 5
timeout == 60
success_threshold == 3

(***************************************************************************)
(* fireflies_client.py: MultiKeyFirefliesClient constants.                 *)
(***************************************************************************)
min_request_interval == 3       \* seconds between requests on one key
default_cooldown == 300         \* mark_key_unavailable(duration=300), HTTP 429
min_retry_duration == 60        \* retry_duration = max(60, ...)
test_cooldown == 10             \* test_fireflies_caching: mark_key_unavailable(.., 10)

Keys == 1..NKeys
api_keys == [i \in 0..(NKeys - 1) |-> i + 1]    \* self.api_keys, 0-based list
RetryAfter == {0, 90}           \* seconds until the upstream's retryAfter instant
Durations == {test_cooldown, min_retry_duration, default_cooldown}
Deps == {"fireflies", "gemini"}
Names == {"gemini_api", "monday_api"}    \* breaker names used by the clients
TaskIds == 1..NTasks
NoItem == 0                     \* no Monday.com item id ('' or None)

VARIABLES
    now,                \* datetime.utcnow() / time.time(), in seconds
    lastOp,             \* the operation performed by the last step and its result
    net,                \* per dependency: requests completed and outcomes
                        \* recorded in a circuit breaker by the client
    cb,                 \* the fields of one CircuitBreaker instance
    pc,                 \* per thread: position inside CircuitBreaker.call
    key_status,         \* MultiKeyFirefliesClient.key_status
    current_key_index,  \* MultiKeyFirefliesClient.current_key_index
    last_request_time,  \* MultiKeyFirefliesClient.last_request_time
    timers,             \* sleeping reactivate_key threads: key and wake-up time
    attempt,            \* loop index of a running _execute_query_with_failover
    returned,           \* keys returned by the get_next_available_key calls
    cooldown_until,     \* per key: end of the cooldown asked by the last
                        \* mark_key_unavailable call (NoTime: never marked)
    circuit_breakers,   \* CircuitBreakerRegistry.circuit_breakers: name -> object
    heap,               \* the CircuitBreaker objects constructed so far
    rpc,                \* per thread: position inside get_or_create
    got,                \* (name, object) pairs returned by get_or_create calls
    tasks,              \* the ProcessedTaskData rows
    action_items,       \* the ActionItem rows created by the pipeline
    create_requests,    \* create_item mutations posted to Monday.com
    next_item_id,       \* id Monday.com gives to the next created item
    runs,               \* transcripts processed by run_end_to_end_pipeline
    gemini_tasks,       \* the GeminiProcessedTask rows
    ff_cache,           \* fireflies cache: the comprehensive transcripts entry
    transcript_rows,    \* rows of the Transcript table (core_transcripts)
    first_write,        \* per fireflies_id: raw_data of the first stored row
    fetched,            \* outcome of the last comprehensive fetch
    ipc,                \* per thread: position inside an ingesting get_or_create
    retry,              \* the running _execute_query_with_retry and its record
    monday_last_request_time,   \* EnhancedMondayClient.last_request_time
    pipeline,           \* the run of run_end_to_end_pipeline: position and stats
    sent,               \* task titles of the items one run sent to Monday.com
    gemini_cache,       \* per prompt hash: the cached extraction result
    extraction,         \* the last extraction call and what it gave back
    created_task,       \* the last task record built from a response object
    cm_entry,           \* the entry the CacheManager's backends hold
    stale_check,        \* the last is_cache_stale call and its result
    cm_call,            \* the last CacheManager call that met the backend
    paging,             \* the running _fetch_with_pagination: its loop variables
    today_cache,        \* the fireflies:today:<date> cache entry of the current UTC date
    today_call          \* the last get_today_transcripts call and what it returned

cbVars == <<cb, pc>>
keyVars == <<key_status, current_key_index, last_request_time, timers,
             attempt, returned, cooldown_until>>
regVars == <<circuit_breakers, heap, rpc, got>>
delVars == <<tasks, action_items, create_requests, next_item_id, runs,
            gemini_tasks>>
ingVars == <<ff_cache, transcript_rows, first_write, fetched, ipc>>
retryVars == <<retry, monday_last_request_time>>
pipeVars == <<pipeline>>
sendVars == <<sent>>
extVars == <<gemini_cache, extraction>>
clampVars == <<created_task>>
staleVars == <<cm_entry, stale_check>>
cmVars == <<cm_call>>
lateVars == <<clampVars, staleVars, cmVars>>
pagingVars == <<paging>>
todayVars == <<today_cache, today_call>>
restVars == <<ingVars, retryVars, pipeVars, sendVars, extVars, lateVars, pagingVars, todayVars>>
vars == <<now, lastOp, net, cbVars, keyVars, regVars, delVars, restVars>>

Min(a, b) == IF a <= b THEN a ELSE b
Max(a, b) == IF a >= b THEN a ELSE b

(***************************************************************************)
(* CircuitBreaker.__init__                                                 *)
(***************************************************************************)
NewBreaker ==
    [state |-> "CLOSED", failure_count |-> 0, success_count |-> 0,
     last_failure_time |-> NoTime, last_success_time |-> NoTime]

(***************************************************************************)
(* CircuitBreaker.can_execute: the returned flag and the breaker after the *)
(* call (OPEN becomes HALF_OPEN once the timeout has elapsed).             *)
(***************************************************************************)
can_execute_mut_strict(b, t) ==
    CASE b.state = "CLOSED" -> [ok |-> TRUE, b |-> b]
      [] b.state = "OPEN" ->
            IF b.last_failure_time # NoTime /\ t - b.last_failure_time > timeout
            THEN [ok |-> TRUE, b |-> [b EXCEPT !.state = "HALF_OPEN"]]
            ELSE [ok |-> FALSE, b |-> b]
      [] b.state = "HALF_OPEN" -> [ok |-> TRUE, b |-> b]
      [] OTHER -> [ok |-> FALSE, b |-> b]

can_execute(b, t) ==
    CASE b.state = "CLOSED" -> [ok |-> TRUE, b |-> b]
      [] b.state = "OPEN" ->
            IF b.last_failure_time # NoTime /\ t - b.last_failure_time >= timeout
            THEN [ok |-> TRUE, b |-> [b EXCEPT !.state = "HALF_OPEN"]]
            ELSE [ok |-> FALSE, b |-> b]
      [] b.state = "HALF_OPEN" -> [ok |-> TRUE, b |-> b]
      [] OTHER -> [ok |-> FALSE, b |-> b]

(***************************************************************************)
(* CircuitBreaker.record_success                                           *)
(***************************************************************************)
record_success_mut_reset_when_closed(b, t) ==
    LET b1 == [b EXCEPT !.last_success_time = t] IN
    IF b1.state = "HALF_OPEN"
    THEN LET b2 == [b1 EXCEPT !.success_count = @ + 1] IN
         IF b2.success_count >= success_threshold
         THEN [b2 EXCEPT !.state = "CLOSED", !.failure_count = 0]
         ELSE b2
    ELSE [b1 EXCEPT !.failure_count = 0]

record_success_mut_keep_failures(b, t) ==
    LET b1 == [b EXCEPT !.last_success_time = t] IN
    IF b1.state = "HALF_OPEN"
    THEN LET b2 == [b1 EXCEPT !.success_count = @ + 1] IN
         IF b2.success_count >= success_threshold
         THEN [b2 EXCEPT !.state = "CLOSED"]
         ELSE b2
    ELSE b1

record_success(b, t) ==
    LET b1 == [b EXCEPT !.last_success_time = t] IN
    IF b1.state = "HALF_OPEN"
    THEN LET b2 == [b1 EXCEPT !.success_count = @ + 1] IN
         IF b2.success_count >= success_threshold
         THEN [b2 EXCEPT !.state = "CLOSED", !.failure_count = 0]
         ELSE b2
    ELSE b1

(***************************************************************************)
(* CircuitBreaker.record_failure                                           *)
(***************************************************************************)
record_failure_mut_late(b, t) ==
    LET b1 == [b EXCEPT !.failure_count = @ + 1, !.last_failure_time = t] IN
    IF b1.state = "CLOSED" /\ b1.failure_count > failure_threshold
    THEN [b1 EXCEPT !.state = "OPEN"]
    ELSE b1

record_failure(b, t) ==
    LET b1 == [b EXCEPT !.failure_count = @ + 1, !.last_failure_time = t] IN
    IF b1.state = "CLOSED" /\ b1.failure_count >= failure_threshold
    THEN [b1 EXCEPT !.state = "OPEN"]
    ELSE b1

(***************************************************************************)
(* models.py: a ProcessedTaskData row as the extractor creates it (field   *)
(* defaults); the task has a title, the assignee e-mails may be blank.     *)
(***************************************************************************)
NewTask(emails) ==
    [task_item |-> "title", assignee_emails |-> emails,
     human_approved |-> FALSE, delivery_status |-> "pending",
     monday_item_id |-> NoItem, delivered_at |-> NoTime,
     delivery_errors |-> <<>>]

(***************************************************************************)
(* One more request to dependency d has completed; recorded tells whether  *)
(* its outcome went into a circuit breaker.  The counters saturate.        *)
(***************************************************************************)
Completed(n, d, recorded) ==
    [n EXCEPT ![d] = [requests |-> Min(@.requests + 1, MaxRequests),
                      recorded |-> IF recorded
                                   THEN Min(@.recorded + 1, MaxRequests)
                                   ELSE @.recorded]]

Init ==
    /\ now = 0
    /\ lastOp = [op |-> "init", t |-> 0, result |-> "none", key |-> 0]
    /\ net = [d \in Deps |-> [requests |-> 0, recorded |-> 0]]
    /\ cb = NewBreaker
    /\ pc = [t \in Threads |-> "idle"]
    /\ key_status = [k \in Keys |-> [active |-> TRUE, last_error |-> "None"]]
    /\ current_key_index = 0
    /\ last_request_time = [k \in Keys |-> NoTime]
    /\ timers = {}
    /\ attempt = -1
    /\ returned = <<>>
    /\ cooldown_until = [k \in Keys |-> NoTime]
    /\ circuit_breakers = [n \in Names |-> 0]
    /\ heap = <<>>
    /\ rpc = [t \in Threads |-> [at |-> "idle", name |-> "none"]]
    /\ got = {}
    /\ tasks = <<>>
    /\ action_items = <<>>
    /\ create_requests = {}
    /\ next_item_id = 1
    /\ runs = 0
    /\ gemini_tasks = <<>>
    /\ ff_cache = [present |-> FALSE, transcripts |-> <<>>]
    /\ transcript_rows = {}
    /\ first_write = [id \in 1..NTranscripts |-> 0]
    /\ fetched = [called |-> FALSE, failed |-> FALSE, returned |-> <<>>,
                  raised |-> FALSE, fallback |-> FALSE]
    /\ ipc = [t \in Threads |-> [at |-> "idle", id |-> 0, raw |-> 0]]
    /\ retry = [status |-> "idle", attempt |-> 0, calls |-> 0, sleeps |-> <<>>,
                error |-> "none", failures_before |-> 0, n |-> 0]
    /\ monday_last_request_time = NoTime
    /\ pipeline = [status |-> "idle", remaining |-> 0, dry_run |-> FALSE,
                   transcripts_processed |-> 0, tasks_extracted |-> 0,
                   tasks_delivered |-> 0, errors |-> 0, summary |-> FALSE,
                   system_event |-> FALSE]
    /\ sent = <<>>
    /\ gemini_cache = [h \in 1..NPromptHashes |->
                          [present |-> FALSE, n |-> 0, content |-> 0]]
    /\ extraction = [fn |-> "none", outcome |-> "none",
                     failed |-> FALSE, returned |-> 0, raised |-> FALSE,
                     content |-> 0,
                     from_content |-> 0]
    /\ created_task = [fn |-> "none", in_priority |-> "none",
                       in_status |-> "none", stored |-> FALSE,
                       priority |-> "none", status |-> "none"]
    /\ cm_entry = [present |-> FALSE, cache_type |-> "none",
                   data |-> [kind |-> "none", fmt |-> "none", t |-> 0],
                   ttl_until |-> NoTime]
    /\ stale_check = [called |-> FALSE, cache_type |-> "none", result |-> TRUE]
    /\ cm_call = [op |-> "none", backend_raises |-> FALSE, raised |-> FALSE,
                  result |-> "none"]
    /\ paging = [status |-> "idle", page |-> 1, requests |-> 0, available |-> 0,
                 all_transcripts |-> <<>>, received |-> <<>>,
                 returned |-> <<>>, last |-> "none"]
    /\ today_cache = [present |-> FALSE, transcripts |-> <<>>,
                      fetch_failed |-> FALSE]
    /\ today_call = [called |-> FALSE, from_cache |-> FALSE,
                     fetch_failed |-> FALSE, returned |-> <<>>]

(***************************************************************************)
(* The clock advances to the next observable instant.                      *)
(***************************************************************************)
Tick(step, last) ==
    /\ ((now \div step) + 1) * step <= last
    /\ now' = ((now \div step) + 1) * step
    /\ lastOp' = [op |-> "tick", t |-> 0, result |-> "none", key |-> 0]
    /\ UNCHANGED <<restVars, net, cbVars, keyVars, regVars, delVars>>

(***************************************************************************)
(* CircuitBreaker.call, first half: can_execute() refuses and call raises  *)
(* CircuitBreakerOpenError; func is not invoked.                           *)
(***************************************************************************)
CallRejected(t) ==
    /\ pc[t] = "idle"
    /\ ~can_execute(cb, now).ok
    /\ cb' = can_execute(cb, now).b
    /\ lastOp' = [op |-> "call", t |-> t, result |-> "CircuitBreakerOpenError", key |-> 0]
    /\ UNCHANGED <<restVars, now, pc, net, keyVars, regVars, delVars>>

(***************************************************************************)
(* CircuitBreaker.call, first half: can_execute() admits the call and func *)
(* is invoked (the thread is inside func until it returns or raises).  The *)
(* callers are EnhancedGeminiClient._execute_request_with_retry and        *)
(* EnhancedMondayClient._execute_query_with_retry, whose func is the       *)
(* network request.                                                        *)
(***************************************************************************)
CallAdmitted(t) ==
    /\ pc[t] = "idle"
    /\ can_execute(cb, now).ok
    /\ cb' = can_execute(cb, now).b
    /\ pc' = [pc EXCEPT ![t] = "in_func"]
    /\ lastOp' = [op |-> "call", t |-> t, result |-> "admitted", key |-> 0]
    /\ UNCHANGED <<restVars, now, net, keyVars, regVars, delVars>>

(***************************************************************************)
(* CircuitBreaker.call, second half: func returned, record_success().      *)
(***************************************************************************)
FuncReturns(t) ==
    /\ pc[t] = "in_func"
    /\ cb.state = "HALF_OPEN" => cb.success_count < MaxSuccesses
    /\ cb' = record_success(cb, now)
    /\ pc' = [pc EXCEPT ![t] = "idle"]
    /\ net' = Completed(net, "gemini", TRUE)
    /\ lastOp' = [op |-> "record_success", t |-> t, result |-> "returned", key |-> 0]
    /\ UNCHANGED <<restVars, now, keyVars, regVars, delVars>>

(***************************************************************************)
(* CircuitBreaker.call, second half: func raised, record_failure() and the *)
(* exception is re-raised.                                                 *)
(***************************************************************************)
FuncRaises(t) ==
    /\ pc[t] = "in_func"
    /\ cb.failure_count < MaxFailures
    /\ cb' = record_failure(cb, now)
    /\ pc' = [pc EXCEPT ![t] = "idle"]
    /\ net' = Completed(net, "gemini", TRUE)
    /\ lastOp' = [op |-> "record_failure", t |-> t, result |-> "raised", key |-> 0]
    /\ UNCHANGED <<restVars, now, keyVars, regVars, delVars>>

NextCB ==
    \/ Tick(TickStep, MaxTime)
    \/ \E t \in Threads : CallRejected(t)
    \/ \E t \in Threads : CallAdmitted(t)
    \/ \E t \in Threads : FuncReturns(t)
    \/ \E t \in Threads : FuncRaises(t)

SpecCB == Init /\ [][NextCB]_vars

(***************************************************************************)
(* MultiKeyFirefliesClient.get_next_available_key: the while loop.  ks is  *)
(* key_status, idx is current_key_index; found is FALSE when the loop ran  *)
(* out of attempts and the first key is returned anyway.                   *)
(***************************************************************************)
RECURSIVE scan_keys(_, _, _)
scan_keys(ks, idx, attempts) ==
    IF attempts >= NKeys * 2
    THEN [key |-> api_keys[0], idx |-> idx, found |-> FALSE]
    ELSE IF ks[api_keys[idx]].active
         THEN [key |-> api_keys[idx], idx |-> idx, found |-> TRUE]
         ELSE scan_keys(ks, (idx + 1) % NKeys, attempts + 1)

(***************************************************************************)
(* get_next_available_key, rate limiting of the chosen key: the time at    *)
(* which the call returns (it sleeps when the key was used less than       *)
(* min_request_interval ago).                                              *)
(***************************************************************************)
return_time(r, t) ==
    IF r.found /\ last_request_time[r.key] # NoTime
               /\ t - last_request_time[r.key] < min_request_interval
    THEN last_request_time[r.key] + min_request_interval
    ELSE t

(***************************************************************************)
(* The state change of one get_next_available_key call returning r.        *)
(***************************************************************************)
get_next_available_key(r) ==
    /\ r = scan_keys(key_status, current_key_index, 0)
    /\ return_time(r, now) <= KeyMaxTime
    /\ now' = return_time(r, now)
    /\ current_key_index' = r.idx
    /\ last_request_time' =
          IF r.found THEN [last_request_time EXCEPT ![r.key] = now']
          ELSE last_request_time

(***************************************************************************)
(* The keys returned since key_status last changed, the latest MaxCalls of *)
(* them.                                                                   *)
(***************************************************************************)
Remember(k) ==
    IF Len(returned) < MaxCalls
    THEN Append(returned, k)
    ELSE Append(Tail(returned), k)

(***************************************************************************)
(* MultiKeyFirefliesClient.mark_key_unavailable: the key's status after    *)
(* the call and the reactivate_key thread it starts.                       *)
(***************************************************************************)
mark_key_unavailable(ks, api_key, error) ==
    [ks EXCEPT ![api_key] = [active |-> FALSE, last_error |-> error]]

reactivate_key(ks, api_key) ==
    [ks EXCEPT ![api_key] = [active |-> TRUE, last_error |-> "None"]]

(***************************************************************************)
(* A direct get_next_available_key call (demo_failover.py).                *)
(***************************************************************************)
GetNextKey ==
    /\ attempt = -1
    /\ \E r \in [key : Keys, idx : 0..(NKeys - 1), found : BOOLEAN] :
          /\ get_next_available_key(r)
          /\ returned' = Remember(r.key)
          /\ lastOp' = [op |-> "get_next_available_key", t |-> 0,
                        result |-> IF r.found THEN "active" ELSE "fallback",
                        key |-> r.key]
    /\ UNCHANGED <<restVars, net, cbVars, regVars, delVars, key_status, timers, attempt, cooldown_until>>

(***************************************************************************)
(* A direct mark_key_unavailable(api_key, error, duration) call            *)
(* (test_fireflies_caching.py passes 10 seconds).                          *)
(***************************************************************************)
MarkKeyUnavailable(k, d) ==
    /\ attempt = -1
    /\ Cardinality(timers) < MaxTimers
    /\ key_status' = mark_key_unavailable(key_status, k, "error")
    /\ timers' = timers \cup {[key |-> k, fire_at |-> now + d]}
    /\ cooldown_until' = [cooldown_until EXCEPT ![k] = now + d]
    /\ returned' = <<>>
    /\ lastOp' = [op |-> "mark_key_unavailable", t |-> 0, result |-> "none",
                  key |-> k]
    /\ UNCHANGED <<restVars, now, net, cbVars, regVars, delVars, current_key_index,
                   last_request_time, attempt>>

(***************************************************************************)
(* A reactivate_key thread wakes up after its sleep and reactivates the    *)
(* key.                                                                    *)
(***************************************************************************)
TimerFires(tm) ==
    /\ tm \in timers
    /\ now >= tm.fire_at
    /\ key_status' = reactivate_key(key_status, tm.key)
    /\ timers' = timers \ {tm}
    /\ returned' = <<>>
    /\ lastOp' = [op |-> "reactivate_key", t |-> 0, result |-> "none",
                  key |-> tm.key]
    /\ UNCHANGED <<restVars, now, net, cbVars, regVars, delVars, current_key_index,
                   last_request_time, attempt, cooldown_until>>

(***************************************************************************)
(* MultiKeyFirefliesClient._execute_query_with_failover: entry.            *)
(***************************************************************************)
ExecuteQuery ==
    /\ attempt = -1
    /\ attempt' = 0
    /\ lastOp' = [op |-> "_execute_query_with_failover", t |-> 0,
                  result |-> "none", key |-> 0]
    /\ UNCHANGED <<restVars, now, net, cbVars, regVars, delVars, key_status,
                   current_key_index, last_request_time, timers, returned,
                   cooldown_until>>

(***************************************************************************)
(* _execute_query_with_failover: one iteration of the loop over the keys.  *)
(* The request is posted with the key get_next_available_key returns;      *)
(* outcome is the upstream's answer; d is the cooldown of a rate-limited   *)
(* key.  After the last iteration the method raises "All API keys failed". *)
(***************************************************************************)
QueryAttempt(outcome, d) ==
    /\ attempt \in 0..(NKeys - 1)
    /\ \E r \in [key : Keys, idx : 0..(NKeys - 1), found : BOOLEAN] :
          /\ get_next_available_key(r)
          /\ net' = Completed(net, "fireflies", FALSE)
          /\ IF outcome \in {"rate_limited", "http_429"}
             THEN /\ Cardinality(timers) < MaxTimers
                  /\ key_status' = mark_key_unavailable(key_status, r.key, outcome)
                  /\ timers' = timers \cup {[key |-> r.key, fire_at |-> now' + d]}
                  /\ cooldown_until' = [cooldown_until EXCEPT ![r.key] = now' + d]
                  /\ returned' = <<>>
             ELSE /\ returned' = Remember(r.key)
                  /\ UNCHANGED <<key_status, timers, cooldown_until>>
          /\ attempt' = IF outcome = "ok" \/ attempt + 1 = NKeys
                        THEN -1 ELSE attempt + 1
          /\ lastOp' = [op |-> "post",
                        t |-> 0,
                        result |-> IF outcome = "ok" THEN "data"
                                   ELSE IF attempt + 1 = NKeys
                                        THEN "All API keys failed"
                                        ELSE "continue",
                        key |-> r.key]
    /\ UNCHANGED <<restVars, cbVars, regVars, delVars>>

(***************************************************************************)
(* The answers of the Fireflies API and the cooldown each one causes.      *)
(***************************************************************************)
QueryAttempts ==
    \/ QueryAttempt("ok", 0)
    \/ QueryAttempt("error", 0)
    \/ QueryAttempt("http_429", default_cooldown)
    \/ \E ra \in RetryAfter : QueryAttempt("rate_limited", Max(min_retry_duration, ra))

NextKeys ==
    \/ Tick(KeyTickStep, KeyMaxTime)
    \/ GetNextKey
    \/ \E k \in Keys, d \in Durations : MarkKeyUnavailable(k, d)
    \/ \E tm \in timers : TimerFires(tm)
    \/ ExecuteQuery
    \/ QueryAttempts

SpecKeys == Init /\ [][NextKeys]_vars

(***************************************************************************)
(* CircuitBreakerRegistry.get_or_create(name), line 101: the membership    *)
(* test.  No lock is held, so other threads run between the steps.         *)
(***************************************************************************)
GetOrCreateCheck(t, name) ==
    /\ rpc[t].at = "idle"
    /\ rpc' = [rpc EXCEPT ![t] =
                 [at |-> IF circuit_breakers[name] = 0 THEN "create" ELSE "return",
                  name |-> name]]
    /\ lastOp' = [op |-> "get_or_create", t |-> t, result |-> "checked", key |-> 0]
    /\ UNCHANGED <<restVars, now, net, cbVars, keyVars, delVars, circuit_breakers, heap, got>>

(***************************************************************************)
(* get_or_create, line 102: CircuitBreaker(name=name) is constructed and   *)
(* stored under the name.                                                  *)
(***************************************************************************)
GetOrCreateStore(t) ==
    /\ rpc[t].at = "create"
    /\ heap' = Append(heap, [name |-> rpc[t].name, b |-> NewBreaker])
    /\ circuit_breakers' = [circuit_breakers EXCEPT ![rpc[t].name] = Len(heap) + 1]
    /\ rpc' = [rpc EXCEPT ![t].at = "return"]
    /\ lastOp' = [op |-> "get_or_create", t |-> t, result |-> "stored", key |-> 0]
    /\ UNCHANGED <<restVars, now, net, cbVars, keyVars, delVars, got>>

(***************************************************************************)
(* get_or_create, line 103: the object now stored under the name is        *)
(* returned.                                                               *)
(***************************************************************************)
GetOrCreateReturn(t) ==
    /\ rpc[t].at = "return"
    /\ got' = got \cup {[name |-> rpc[t].name, obj |-> circuit_breakers[rpc[t].name]]}
    /\ rpc' = [rpc EXCEPT ![t] = [at |-> "idle", name |-> "none"]]
    /\ lastOp' = [op |-> "get_or_create", t |-> t, result |-> "returned", key |-> 0]
    /\ UNCHANGED <<restVars, now, net, cbVars, keyVars, delVars, circuit_breakers, heap>>

NextReg ==
    \/ \E t \in Threads, name \in Names : GetOrCreateCheck(t, name)
    \/ \E t \in Threads : GetOrCreateStore(t)
    \/ \E t \in Threads : GetOrCreateReturn(t)

SpecReg == Init /\ [][NextReg]_vars

(***************************************************************************)
(* ProcessedTaskData.is_ready_for_delivery                                 *)
(***************************************************************************)
is_ready_for_delivery(task) ==
    /\ task.human_approved
    /\ task.delivery_status = "pending"
    /\ task.task_item # ""
    /\ task.assignee_emails # ""

(***************************************************************************)
(* ProcessedTaskData.mark_delivered(monday_item_id=None)                   *)
(***************************************************************************)
mark_delivered(task, monday_item_id, t) ==
    [task EXCEPT !.delivery_status = "delivered",
                 !.delivered_at = t,
                 !.monday_item_id = IF monday_item_id # NoItem
                                    THEN monday_item_id ELSE @]

(***************************************************************************)
(* PrecisionTaskExtractor stores a ProcessedTaskData row for an extracted  *)
(* task.                                                                   *)
(***************************************************************************)
CreateTask(emails) ==
    /\ Len(tasks) < NTasks
    /\ tasks' = Append(tasks, NewTask(emails))
    /\ lastOp' = [op |-> "create_task", t |-> Len(tasks) + 1, result |-> "none",
                  key |-> 0]
    /\ UNCHANGED <<restVars, now, net, cbVars, keyVars, regVars, action_items,
                   create_requests, next_item_id, gemini_tasks, runs>>

(***************************************************************************)
(* ProcessedTaskData.approve_for_delivery (admin action approve_for_       *)
(* delivery on the rows with human_approved=False).                        *)
(***************************************************************************)
ApproveForDelivery(i) ==
    /\ i \in 1..Len(tasks)
    /\ ~tasks[i].human_approved
    /\ tasks' = [tasks EXCEPT ![i].human_approved = TRUE]
    /\ lastOp' = [op |-> "approve_for_delivery", t |-> i, result |-> "none",
                  key |-> 0]
    /\ UNCHANGED <<restVars, now, net, cbVars, keyVars, regVars, action_items,
                   create_requests, next_item_id, gemini_tasks, runs>>

(***************************************************************************)
(* Admin action mark_as_delivered: mark_delivered() without an item id on  *)
(* the rows with delivery_status='pending'.                                *)
(***************************************************************************)
MarkAsDelivered(i) ==
    /\ i \in 1..Len(tasks)
    /\ tasks[i].delivery_status = "pending"
    /\ tasks' = [tasks EXCEPT ![i] = mark_delivered(@, NoItem, now)]
    /\ lastOp' = [op |-> "mark_as_delivered", t |-> i, result |-> "none",
                  key |-> 0]
    /\ UNCHANGED <<restVars, now, net, cbVars, keyVars, regVars, action_items,
                   create_requests, next_item_id, gemini_tasks, runs>>

(***************************************************************************)
(* PrecisionMondayClient.deliver_processed_task(task).  outcome is what    *)
(* create_task_item does: "created" (the mutation is posted and returns an *)
(* item id), "no_item" (posted, no item comes back: None), "circuit_open"  *)
(* (the breaker rejects the call, nothing is posted: None), "exception"    *)
(* (an exception inside the try block before anything is posted).          *)
(***************************************************************************)
deliver_processed_task(st, i, outcome) ==
    IF ~is_ready_for_delivery(st.tasks[i])
    THEN [st EXCEPT !.ok = FALSE, !.attempted = FALSE]
    ELSE [tasks |->
            IF outcome = "created"
            THEN [st.tasks EXCEPT ![i] = mark_delivered(@, st.next_item_id, now)]
            ELSE [st.tasks EXCEPT
                    ![i].delivery_status = "failed",
                    ![i].delivery_errors =
                       Append(@, IF outcome = "exception" THEN "str(e)"
                                 ELSE "Monday.com delivery returned no item ID")],
          create_requests |->
            IF outcome \in {"created", "no_item"}
            THEN st.create_requests \cup
                   {[source |-> "deliver_processed_task", task |-> i,
                     approved |-> st.tasks[i].human_approved,
                     item |-> IF outcome = "created" THEN st.next_item_id
                              ELSE NoItem]}
            ELSE st.create_requests,
          next_item_id |-> IF outcome = "created" THEN st.next_item_id + 1
                           ELSE st.next_item_id,
          ok |-> outcome = "created",
          attempted |-> TRUE]

\* the rows and the Monday.com side before a delivery call
DeliveryState ==
    [tasks |-> tasks, create_requests |-> create_requests,
     next_item_id |-> next_item_id, ok |-> FALSE, attempted |-> FALSE]

DeliverProcessedTask(i, outcome) ==
    /\ i \in 1..Len(tasks)
    /\ LET r == deliver_processed_task(DeliveryState, i, outcome) IN
         /\ tasks' = r.tasks
         /\ create_requests' = r.create_requests
         /\ next_item_id' = r.next_item_id
         /\ lastOp' = [op |-> "deliver_processed_task", t |-> i,
                       result |-> IF r.ok THEN "True" ELSE "False",
                       key |-> IF r.attempted THEN 1 ELSE 0]
    /\ UNCHANGED <<restVars, now, net, cbVars, keyVars, regVars, action_items,
                   gemini_tasks, runs>>

(***************************************************************************)
(* PrecisionMondayClient.bulk_deliver_tasks(processed_tasks) on the rows   *)
(* in id order; outcomes[i] is what create_task_item does for row i.       *)
(***************************************************************************)
RECURSIVE bulk_deliver_tasks(_, _, _, _)
bulk_deliver_tasks(st, outcomes, i, results) ==
    IF i > Len(st.tasks)
    THEN [st |-> st, results |-> results]
    ELSE LET r == deliver_processed_task(st, i, outcomes[i]) IN
         bulk_deliver_tasks(r, outcomes, i + 1,
             IF r.ok
             THEN [results EXCEPT !.delivered = @ + 1]
             ELSE [results EXCEPT !.failed = @ + 1])

BulkDeliverTasks(outcomes) ==
    /\ Len(tasks) >= 1
    /\ LET r == bulk_deliver_tasks(DeliveryState, outcomes, 1,
                                   [delivered |-> 0, failed |-> 0]) IN
         /\ tasks' = r.st.tasks
         /\ create_requests' = r.st.create_requests
         /\ next_item_id' = r.st.next_item_id
         /\ lastOp' = [op |-> "bulk_deliver_tasks", t |-> r.results.delivered,
                       result |-> "results", key |-> r.results.failed]
    /\ UNCHANGED <<restVars, now, net, cbVars, keyVars, regVars, action_items,
                   gemini_tasks, runs>>

(***************************************************************************)
(* GeminiProcessedTask rows and the admin action push_to_monday_now on the *)
(* selected rows with delivered_to_monday=False.  delivery_errors holds    *)
(* the recorded entries: [] and '' hold none, a string holds one.          *)
(***************************************************************************)
NewGeminiTask(approval_status) ==
    [approval_status |-> approval_status, monday_item_id |-> NoItem,
     delivered_to_monday |-> FALSE, delivery_errors |-> <<>>]

CreateGeminiTask(approval_status) ==
    /\ Len(gemini_tasks) < NGeminiTasks
    /\ gemini_tasks' = Append(gemini_tasks, NewGeminiTask(approval_status))
    /\ lastOp' = [op |-> "create_gemini_task", t |-> Len(gemini_tasks) + 1,
                  result |-> "none", key |-> 0]
    /\ UNCHANGED <<restVars, now, net, cbVars, keyVars, regVars, tasks,
                   action_items, create_requests, next_item_id, runs>>

PushToMondayNow(queryset, outcomes) ==
    LET selected == {g \in queryset : ~gemini_tasks[g].delivered_to_monday}
        item(g) == next_item_id
                     + Cardinality({h \in selected : h < g /\ outcomes[h] = "created"})
    IN
    /\ queryset # {}
    /\ gemini_tasks' =
         [g \in 1..Len(gemini_tasks) |->
            IF g \notin selected THEN gemini_tasks[g]
            ELSE IF outcomes[g] = "created"
            THEN [gemini_tasks[g] EXCEPT !.monday_item_id = item(g),
                                         !.delivered_to_monday = TRUE,
                                         !.delivery_errors = <<>>]
            ELSE [gemini_tasks[g] EXCEPT
                    !.delivery_errors =
                       IF outcomes[g] = "exception" THEN <<"str(e)">>
                       ELSE <<"Failed to create Monday.com item">>]]
    /\ create_requests' = create_requests \cup
         {[source |-> "push_to_monday_now", task |-> 100 + g,
           approved |-> gemini_tasks[g].approval_status = "approved",
           item |-> IF outcomes[g] = "created" THEN item(g) ELSE NoItem]
            : g \in {h \in selected : outcomes[h] \in {"created", "no_item"}}}
    /\ next_item_id' = next_item_id
         + Cardinality({h \in selected : outcomes[h] = "created"})
    /\ lastOp' = [op |-> "push_to_monday_now", t |-> Cardinality(selected),
                  result |-> "none", key |-> 0]
    /\ UNCHANGED <<restVars, now, net, cbVars, keyVars, regVars, tasks,
                   action_items, runs>>

DeliveryOutcomes == {"created", "no_item", "circuit_open", "exception"}

(***************************************************************************)
(* run_end_to_end_pipeline.Command.process_transcript for one transcript.  *)
(* n tasks are extracted; stored[i] tells whether ActionItem.objects.      *)
(* create succeeded for task i; outcomes[i] is what create_task_item does  *)
(* for task i inside EnhancedMondayClient.bulk_create_tasks.               *)
(***************************************************************************)
RECURSIVE created_action_items(_, _, _, _)
created_action_items(run, n, stored, i) ==
    IF i > n THEN <<>>
    ELSE (IF stored[i]
          THEN <<[run |-> run, task |-> i, status |-> "pending",
                  monday_item_id |-> NoItem, delivered_at |-> NoTime]>>
          ELSE <<>>) \o created_action_items(run, n, stored, i + 1)

\* bulk_create_tasks: the list of item ids (None where no item was created)
bulk_create_tasks(n, outcomes, first_id) ==
    [i \in 1..n |->
        IF outcomes[i] = "created"
        THEN first_id + Cardinality({j \in 1..(i - 1) : outcomes[j] = "created"})
        ELSE NoItem]

\* process_transcript, "Update action items with Monday.com IDs"
update_action_items(created, delivered_items, t) ==
    [j \in 1..Len(created) |->
        IF j <= Len(delivered_items) /\ delivered_items[j] # NoItem
        THEN [created[j] EXCEPT !.monday_item_id = delivered_items[j],
                                !.status = "delivered",
                                !.delivered_at = t]
        ELSE created[j]]

process_transcript(n, stored, outcomes, dry_run) ==
    /\ runs' = runs + 1
    /\ LET run == runs + 1
           created == created_action_items(run, n, stored, 1)
           delivered_items == bulk_create_tasks(n, outcomes, next_item_id)
           approved(i) == \E j \in 1..Len(created) :
                              created[j].task = i /\ created[j].status = "approved"
       IN IF n = 0
          THEN /\ lastOp' = [op |-> "process_transcript", t |-> run,
                             result |-> "no_tasks", key |-> 0]
               /\ UNCHANGED <<action_items, create_requests, next_item_id>>
          ELSE IF dry_run
          THEN /\ action_items' = action_items \o created
               /\ lastOp' = [op |-> "process_transcript", t |-> run,
                             result |-> "dry_run", key |-> 0]
               /\ UNCHANGED <<create_requests, next_item_id>>
          ELSE /\ create_requests' = create_requests \cup
                     {[source |-> "bulk_create_tasks", task |-> run * 10 + i,
                       approved |-> approved(i), item |-> delivered_items[i]]
                        : i \in {j \in 1..n : outcomes[j] \in {"created", "no_item"}}}
               /\ next_item_id' = next_item_id
                     + Cardinality({j \in 1..n : outcomes[j] = "created"})
               /\ action_items' = action_items
                     \o update_action_items(created, delivered_items, now)
               /\ lastOp' = [op |-> "process_transcript", t |-> run,
                             result |-> "delivered", key |-> 0]
    /\ UNCHANGED <<ingVars, retryVars, sendVars, now, net, cbVars, keyVars, regVars, tasks,
                   gemini_tasks, extVars,
                   lateVars, pagingVars, todayVars>>

\* process_transcript run on its own for one transcript
ProcessTranscript(n, stored, outcomes, dry_run) ==
    /\ runs < MaxRuns
    /\ process_transcript(n, stored, outcomes, dry_run)
    /\ UNCHANGED <<pipeVars, sendVars>>

(***************************************************************************)
(* run_end_to_end_pipeline.Command.handle.  fetch is what retrieving the   *)
(* transcripts does: it raises, or it returns k transcripts.  One step of  *)
(* the loop processes one transcript: process_transcript raises before it  *)
(* stored anything, or it runs as above and updates the statistics.        *)
(***************************************************************************)
Handle(fetch_raises, k, dry_run) ==
    /\ pipeline.status = "idle"
    /\ pipeline' =
         IF fetch_raises
         THEN [pipeline EXCEPT !.status = "done", !.system_event = TRUE]
         ELSE IF k = 0
         THEN [pipeline EXCEPT !.status = "done"]
         ELSE [pipeline EXCEPT !.status = "processing", !.remaining = k,
                               !.dry_run = dry_run]
    /\ lastOp' = [op |-> "handle", t |-> k,
                  result |-> IF fetch_raises THEN "exception" ELSE "transcripts",
                  key |-> 0]
    /\ UNCHANGED <<ingVars, retryVars, sendVars, now, net, cbVars, keyVars, regVars, delVars, extVars,
                   lateVars, pagingVars, todayVars>>

HandleTranscript(raises, n, stored, outcomes) ==
    /\ pipeline.status = "processing"
    /\ pipeline.remaining > 0
    /\ IF raises
       THEN /\ pipeline' = [pipeline EXCEPT
                               !.remaining = @ - 1,
                               !.transcripts_processed = @ + 1,
                               !.errors = @ + 1]
            /\ lastOp' = [op |-> "handle_transcript", t |-> 0,
                          result |-> "exception", key |-> 0]
            /\ UNCHANGED <<ingVars, retryVars, sendVars, now, net, cbVars, keyVars,
                           regVars, delVars, extVars,
                   lateVars, pagingVars, todayVars>>
       ELSE /\ process_transcript(n, stored, outcomes, pipeline.dry_run)
            /\ pipeline' = [pipeline EXCEPT
                   !.remaining = @ - 1,
                   !.transcripts_processed = @ + 1,
                   !.tasks_extracted = @ + n,
                   !.tasks_delivered = @ + (IF pipeline.dry_run THEN 0
                       ELSE Cardinality({j \in 1..n : outcomes[j] = "created"})),
                   !.errors = @ + Cardinality({j \in 1..n : ~stored[j]})]

\* the loop is over: display_results(stats, dry_run)
DisplayResults ==
    /\ pipeline.status = "processing"
    /\ pipeline.remaining = 0
    /\ pipeline' = [pipeline EXCEPT !.status = "done", !.summary = TRUE]
    /\ lastOp' = [op |-> "display_results", t |-> 0, result |-> "none", key |-> 0]
    /\ UNCHANGED <<ingVars, retryVars, sendVars, now, net, cbVars, keyVars, regVars, delVars, extVars,
                   lateVars, pagingVars, todayVars>>

NextPipeline ==
    \/ \E fetch_raises \in BOOLEAN, k \in 0..MaxTranscripts, dry_run \in BOOLEAN :
         Handle(fetch_raises, k, dry_run)
    \/ \E raises \in BOOLEAN, n \in 0..MaxExtracted :
         \E stored \in [1..n -> BOOLEAN],
            outcomes \in [1..n -> {"created", "no_item", "circuit_open"}] :
              HandleTranscript(raises, n, stored, outcomes)
    \/ DisplayResults

SpecPipeline == Init /\ [][NextPipeline]_vars

NextDeliver ==
    \/ \E e \in {"", "a@x.com"} : CreateTask(e)
    \/ \E i \in TaskIds : ApproveForDelivery(i)
    \/ \E i \in TaskIds : MarkAsDelivered(i)
    \/ \E outcomes \in [1..Len(tasks) -> DeliveryOutcomes] :
         BulkDeliverTasks(outcomes)
    \/ \E i \in TaskIds, o \in DeliveryOutcomes : DeliverProcessedTask(i, o)
    \/ \E n \in 0..MaxExtracted, dry_run \in BOOLEAN :
         \E stored \in [1..n -> BOOLEAN],
            outcomes \in [1..n -> {"created", "no_item", "circuit_open"}] :
              ProcessTranscript(n, stored, outcomes, dry_run)

SpecDeliver == Init /\ [][NextDeliver]_vars

(***************************************************************************)
(* Delivery of single rows: deliver_processed_task on ProcessedTaskData    *)
(* rows and the admin push on GeminiProcessedTask rows.                    *)
(***************************************************************************)
NextPush ==
    \/ \E e \in {"", "a@x.com"} : CreateTask(e)
    \/ \E i \in TaskIds : ApproveForDelivery(i)
    \/ \E i \in TaskIds, o \in DeliveryOutcomes : DeliverProcessedTask(i, o)
    \/ \E a \in {"pending", "approved"} : CreateGeminiTask(a)
    \/ \E queryset \in SUBSET (1..Len(gemini_tasks)) :
         \E outcomes \in [1..Len(gemini_tasks) -> DeliveryOutcomes] :
           PushToMondayNow(queryset, outcomes)

SpecPush == Init /\ [][NextPush]_vars

(***************************************************************************)
(* fireflies_client.py: the comprehensive fetch, its cache entry and the   *)
(* Transcript rows it persists.  A transcript item is its fireflies id and *)
(* its raw payload.  A page of the upstream is "ok" with its items (full:  *)
(* it holds `limit` items), "fail" (_execute_query_with_failover raised:   *)
(* all API keys failed) or "unexpected" (a response without data).         *)
(***************************************************************************)
max_pages == 10                 \* _fetch_with_pagination: safety limit
TIds == 1..NTranscripts
Payloads == 1..NPayloads
NoPayload == 0                  \* no row stored for the id yet
NoEntry == [present |-> FALSE, transcripts |-> <<>>]    \* cache.get -> None

PageContents ==
    UNION {{[i \in 1..k |-> [id |-> i, raw |-> f[i]]] : f \in [1..k -> Payloads]}
             : k \in 0..NTranscripts}

PageSet ==
    {[kind |-> "ok", items |-> c, full |-> b] :
        c \in PageContents, b \in BOOLEAN} \cup
    {[kind |-> k, items |-> <<>>, full |-> FALSE] : k \in {"fail", "unexpected"}}

\* the answers of the upstream to one fetch: every page before the last is
\* a full page, and a full page is never empty
PageRuns ==
    {p \in UNION {[1..n -> PageSet] : n \in 1..MaxPages} :
        /\ \A i \in 1..Len(p) : p[i].full => p[i].items # <<>>
        /\ \A i \in 1..(Len(p) - 1) : p[i].kind = "ok" /\ p[i].full
        /\ ~(p[Len(p)].kind = "ok" /\ p[Len(p)].full)}

\* the while loop of _fetch_with_pagination
RECURSIVE fetch_pages(_, _, _)
fetch_pages(pages, page, all_transcripts) ==
    IF page > max_pages \/ page > Len(pages)
    THEN [all |-> all_transcripts, failed |-> FALSE]
    ELSE LET r == pages[page] IN
         IF r.kind = "fail"
         THEN [all |-> all_transcripts, failed |-> TRUE]
         ELSE IF r.kind = "unexpected" \/ r.items = <<>>
         THEN [all |-> all_transcripts, failed |-> FALSE]
         ELSE IF ~r.full
         THEN [all |-> all_transcripts \o r.items, failed |-> FALSE]
         ELSE fetch_pages(pages, page + 1, all_transcripts \o r.items)

HasRow(rows, id) == \E r \in rows : r.fireflies_id = id

\* Transcript.objects.get_or_create(fireflies_id=.., defaults={raw_data: ..})
\* run without interruption
get_or_create_transcript(rows, id, raw) ==
    IF HasRow(rows, id)
    THEN rows
    ELSE rows \cup {[pk |-> Cardinality(rows) + 1, fireflies_id |-> id,
                     raw_data |-> raw]}

\* the loop of _save_transcripts_to_database: transcript, created =
\* get_or_create(..), and created counts the new rows
RECURSIVE save_transcripts_to_database(_, _, _)
save_transcripts_to_database(rows, transcripts, i) ==
    IF i > Len(transcripts)
    THEN rows
    ELSE LET saved == get_or_create_transcript(rows, transcripts[i].id,
                                                transcripts[i].raw)
             created == saved # rows
         IN
         IF created
         THEN save_transcripts_to_database(saved, transcripts, i + 1)
         ELSE save_transcripts_to_database(rows, transcripts, i + 1)

\* history: the raw_data each id was first stored with
NoteFirstWrite(fw, rows) ==
    [id \in TIds |->
        IF fw[id] # NoPayload \/ ~HasRow(rows, id)
        THEN fw[id]
        ELSE (CHOOSE r \in rows : r.fireflies_id = id).raw_data]

\* get_comprehensive_transcripts_with_pagination(force_refresh) with
\* _fetch_with_pagination; db_ok: the database transaction succeeds
get_comprehensive_transcripts_with_pagination(force_refresh, pages, db_ok) ==
    LET hit == ~force_refresh /\ ff_cache.present
        r == fetch_pages(pages, 1, <<>>)
        rows == IF db_ok
                THEN save_transcripts_to_database(transcript_rows, r.all, 1)
                ELSE transcript_rows
    IN
    IF hit
    THEN /\ fetched' = [called |-> TRUE, failed |-> FALSE,
                        returned |-> ff_cache.transcripts,
                        raised |-> FALSE, fallback |-> TRUE]
         /\ UNCHANGED <<ff_cache, transcript_rows, first_write>>
    ELSE /\ ff_cache' = IF r.all # <<>>
                        THEN [present |-> TRUE, transcripts |-> r.all]
                        ELSE ff_cache
         /\ transcript_rows' = rows
         /\ first_write' = NoteFirstWrite(first_write, rows)
         /\ fetched' = [called |-> TRUE, failed |-> r.failed,
                        returned |-> r.all, raised |-> FALSE,
                        fallback |-> ff_cache.present \/ transcript_rows # {}]

FetchComprehensive(force_refresh, pages, db_ok) ==
    /\ get_comprehensive_transcripts_with_pagination(force_refresh, pages, db_ok)
    /\ lastOp' = [op |-> "fetch_comprehensive", t |-> 0,
                  result |-> IF ~force_refresh /\ ff_cache.present
                             THEN "cache" ELSE "api",
                  key |-> 0]
    /\ UNCHANGED <<now, net, cbVars, keyVars, regVars, delVars, retryVars,
                   pipeVars, sendVars, ipc, extVars, lateVars, pagingVars, todayVars>>

\* the file-based cache stops serving the entry once its timeout has passed
CacheExpires ==
    /\ ff_cache.present
    /\ ff_cache' = NoEntry
    /\ lastOp' = [op |-> "cache_expires", t |-> 0, result |-> "none", key |-> 0]
    /\ UNCHANGED <<now, net, cbVars, keyVars, regVars, delVars, retryVars, pipeVars, sendVars,
                   transcript_rows, first_write, fetched, ipc, extVars,
                   lateVars, pagingVars, todayVars>>

NextFetch ==
    \/ \E force_refresh \in BOOLEAN, pages \in PageRuns, db_ok \in BOOLEAN :
         FetchComprehensive(force_refresh, pages, db_ok)
    \/ CacheExpires

SpecFetch == Init /\ [][NextFetch]_vars

(***************************************************************************)
(* Ingestion of one transcript by concurrent writers.  get_or_create is a  *)
(* SELECT followed, when no row was found, by an INSERT; the column is     *)
(* unique=True, so an INSERT of a stored fireflies_id is refused and       *)
(* get_or_create returns the stored row.                                   *)
(***************************************************************************)
IngestGet(t, id, raw) ==
    /\ ipc[t].at = "idle"
    /\ IF HasRow(transcript_rows, id)
       THEN /\ UNCHANGED ipc
            /\ lastOp' = [op |-> "get_or_create", t |-> t,
                          result |-> "existing", key |-> id]
       ELSE /\ ipc' = [ipc EXCEPT ![t] = [at |-> "insert", id |-> id, raw |-> raw]]
            /\ lastOp' = [op |-> "get_or_create", t |-> t,
                          result |-> "missing", key |-> id]
    /\ UNCHANGED <<now, net, cbVars, keyVars, regVars, delVars, retryVars, pipeVars, sendVars,
                   ff_cache, transcript_rows, first_write, fetched, extVars,
                   lateVars, pagingVars, todayVars>>

IngestCreate(t) ==
    /\ ipc[t].at = "insert"
    /\ transcript_rows' = get_or_create_transcript(transcript_rows, ipc[t].id, ipc[t].raw)
    /\ first_write' = NoteFirstWrite(first_write, transcript_rows')
    /\ ipc' = [ipc EXCEPT ![t] = [at |-> "idle", id |-> 0, raw |-> 0]]
    /\ lastOp' = [op |-> "get_or_create", t |-> t,
                  result |-> IF HasRow(transcript_rows, ipc[t].id)
                             THEN "IntegrityError" ELSE "created",
                  key |-> ipc[t].id]
    /\ UNCHANGED <<now, net, cbVars, keyVars, regVars, delVars, retryVars, pipeVars, sendVars, ff_cache, fetched, extVars,
                   lateVars, pagingVars, todayVars>>

\* populate_db_from_json: get_or_create, and on an existing row
\* transcript.raw_data = transcript_data; transcript.save()
ImportFromJson(id, raw) ==
    /\ transcript_rows' =
         IF HasRow(transcript_rows, id)
         THEN {IF r.fireflies_id = id THEN [r EXCEPT !.raw_data = raw] ELSE r
                 : r \in transcript_rows}
         ELSE get_or_create_transcript(transcript_rows, id, raw)
    /\ first_write' = NoteFirstWrite(first_write, transcript_rows')
    /\ lastOp' = [op |-> "populate_db_from_json", t |-> 0,
                  result |-> IF HasRow(transcript_rows, id)
                             THEN "updated" ELSE "created",
                  key |-> id]
    /\ UNCHANGED <<now, net, cbVars, keyVars, regVars, delVars, retryVars, pipeVars, sendVars,
                   ff_cache, fetched, ipc, extVars,
                   lateVars, pagingVars, todayVars>>

NextIngest ==
    \/ \E t \in Threads, id \in TIds, raw \in Payloads : IngestGet(t, id, raw)
    \/ \E t \in Threads : IngestCreate(t)
    \/ \E id \in TIds, raw \in Payloads : ImportFromJson(id, raw)

SpecIngest == Init /\ [][NextIngest]_vars

(***************************************************************************)
(* monday_client.py: EnhancedMondayClient._execute_query_with_retry.  One  *)
(* step is one pass of the retry loop: circuit_breaker.call(make_request)  *)
(* and the handling of what it raises, the backoff sleep included.  The    *)
(* outcome of the network request is "ok", "RequestException" (HTTP 429,   *)
(* an HTTP error status, a timeout, a rate-limit GraphQL error) or         *)
(* "Exception" (any other GraphQL error).  The executions of one run last  *)
(* less than the timeout of the breaker, so an Open breaker stays Open.    *)
(***************************************************************************)
retry_attempts == 3             \* EXTERNAL_APIS['MONDAY']['RETRY_ATTEMPTS']
backoff_factor == 2             \* EXTERNAL_APIS['MONDAY']['BACKOFF_FACTOR']
max_backoff_time == 300         \* EXTERNAL_APIS['MONDAY']['MAX_BACKOFF_TIME']
monday_min_request_interval == 2    \* 60.0 / rate_limit_per_minute (30)
RequestOutcomes == {"ok", "RequestException", "Exception"}

RECURSIVE Pow(_, _)
Pow(b, e) == IF e = 0 THEN 1 ELSE b * Pow(b, e - 1)

\* backoff_time = min(self.backoff_factor ** attempt, self.max_backoff_time)
backoff_time_mut_linear(attempt_no) ==
    Min(backoff_factor * attempt_no, max_backoff_time)

backoff_time(attempt_no) ==
    Min(Pow(backoff_factor, attempt_no), max_backoff_time)

\* _enforce_rate_limit: the instant the request is sent
enforce_rate_limit(t) ==
    IF monday_last_request_time = NoTime
    THEN t
    ELSE Max(t, monday_last_request_time + monday_min_request_interval)

ExecuteQueryWithRetry ==
    /\ retry.status # "running"
    /\ retry.n < MaxExecutions
    /\ retry' = [status |-> "running", attempt |-> 0, calls |-> 0,
                 sleeps |-> <<>>, error |-> "none",
                 failures_before |-> cb.failure_count, n |-> retry.n + 1]
    /\ lastOp' = [op |-> "execute_query_with_retry", t |-> 0,
                  result |-> "none", key |-> 0]
    /\ UNCHANGED <<now, net, cbVars, keyVars, regVars, delVars, ingVars,
                   pipeVars, sendVars, monday_last_request_time, extVars,
                   lateVars, pagingVars, todayVars>>

RetryAttempt(outcome) ==
    /\ retry.status = "running"
    /\ retry.attempt < retry_attempts
    /\ LET ce == can_execute(cb, now)
           sent_at == enforce_rate_limit(now)
       IN
       IF ~ce.ok
       THEN /\ cb' = ce.b
            /\ retry' = [retry EXCEPT !.status = "raised",
                                      !.error = "CircuitBreakerOpenError"]
            /\ lastOp' = [op |-> "retry_attempt", t |-> retry.attempt,
                          result |-> "CircuitBreakerOpenError", key |-> 0]
            /\ UNCHANGED <<now, monday_last_request_time>>
       ELSE /\ monday_last_request_time' = sent_at
            /\ lastOp' = [op |-> "retry_attempt", t |-> retry.attempt,
                          result |-> outcome, key |-> 1]
            /\ CASE outcome = "ok" ->
                      /\ cb' = record_success(ce.b, sent_at)
                      /\ retry' = [retry EXCEPT !.status = "returned",
                                                !.calls = @ + 1]
                      /\ now' = sent_at
                 [] outcome = "RequestException" ->
                      /\ cb' = record_failure(ce.b, sent_at)
                      /\ IF retry.attempt < retry_attempts - 1
                         THEN /\ retry' = [retry EXCEPT
                                   !.calls = @ + 1,
                                   !.attempt = @ + 1,
                                   !.error = "RequestException",
                                   !.sleeps = Append(@, backoff_time(retry.attempt))]
                              /\ now' = sent_at + backoff_time(retry.attempt)
                         ELSE /\ retry' = [retry EXCEPT
                                   !.calls = @ + 1,
                                   !.status = "raised",
                                   !.error = "RequestException"]
                              /\ now' = sent_at
                 [] OTHER ->
                      /\ cb' = record_failure(ce.b, sent_at)
                      /\ retry' = [retry EXCEPT !.calls = @ + 1,
                                                !.status = "raised",
                                                !.error = "Exception"]
                      /\ now' = sent_at
    /\ UNCHANGED <<pc, net, keyVars, regVars, delVars, ingVars, pipeVars, sendVars, extVars,
                   lateVars, pagingVars, todayVars>>

NextRetry ==
    \/ ExecuteQueryWithRetry
    \/ \E outcome \in RequestOutcomes : RetryAttempt(outcome)

SpecRetry == Init /\ [][NextRetry]_vars

(***************************************************************************)
(* The items one run sends to Monday.com, by task title: the production    *)
(* pipeline (process_transcript, step 5: bulk_create_tasks on all the      *)
(* extracted tasks) and the comprehensive test pipeline (deliver_to_monday *)
(* with its safety limit and its set of delivered names).                  *)
(***************************************************************************)
MAX_ITEMS_TO_DELIVER == 5       \* test_comprehensive_pipeline.deliver_to_monday
Titles == {"Fix login bug", "Call Bob", "Send report"}
ExtractedLists == UNION {[1..n -> Titles] : n \in 0..MaxItems}

\* all_action_items[:MAX_ITEMS_TO_DELIVER]
FirstItems(items, limit) == SubSeq(items, 1, Min(Len(items), limit))

\* the preparation loop of deliver_to_monday: an item whose task name is
\* already in delivered_names is skipped
RECURSIVE prepare_items(_, _, _)
prepare_items(items, i, delivered_names) ==
    IF i > Len(items)
    THEN <<>>
    ELSE IF items[i] \in delivered_names
    THEN prepare_items(items, i + 1, delivered_names)
    ELSE <<items[i]>> \o prepare_items(items, i + 1, delivered_names \cup {items[i]})

\* test_comprehensive_pipeline: one create_task_item call per prepared item
DeliverToMonday(all_action_items) ==
    /\ sent = <<>>          \* the run has not sent anything yet
    /\ sent' = prepare_items(FirstItems(all_action_items, MAX_ITEMS_TO_DELIVER), 1, {})
    /\ lastOp' = [op |-> "deliver_to_monday", t |-> Len(all_action_items),
                  result |-> "none", key |-> 0]
    /\ UNCHANGED <<now, net, cbVars, keyVars, regVars, delVars, ingVars,
                   retryVars, pipeVars, extVars,
                   lateVars, pagingVars, todayVars>>

\* run_end_to_end_pipeline: bulk_create_tasks(extracted_tasks) calls
\* create_task_item for every extracted task
PipelineDelivers(extracted_tasks) ==
    /\ sent = <<>>          \* the run has not sent anything yet
    /\ sent' = extracted_tasks
    /\ lastOp' = [op |-> "bulk_create_tasks", t |-> Len(extracted_tasks),
                  result |-> "none", key |-> 0]
    /\ UNCHANGED <<now, net, cbVars, keyVars, regVars, delVars, ingVars,
                   retryVars, pipeVars, extVars,
                   lateVars, pagingVars, todayVars>>

NextSend ==
    \/ \E items \in ExtractedLists : DeliverToMonday(items)
    \/ \E items \in ExtractedLists : PipelineDelivers(items)

SpecSend == Init /\ [][NextSend]_vars

(***************************************************************************)
(* Task extraction with the LLM: EnhancedGeminiClient                      *)
(* .extract_tasks_from_transcript (result cache keyed by the prompt hash)  *)
(* and PrecisionTaskExtractor.extract_tasks_from_cache.  Both send the     *)
(* request through _execute_request_with_retry and the "gemini_api"        *)
(* breaker, here cb.  A result is the number of tasks it holds.            *)
(***************************************************************************)
PromptHashes == 1..NPromptHashes
Contents == 1..NContents
NoResult == [present |-> FALSE, n |-> 0, content |-> 0]     \* cache.get -> None

\* the transcript handed to the extractor: what _generate_prompt_hash reads
\* (title, date, sentence count, organizer), the rest of its content, and
\* whether the upstream sent "summary": null
TranscriptData ==
    [key_data : PromptHashes, content : Contents, summary_null : BOOLEAN]

\* what the upstream does with the request
GeminiOutcomes ==
    {"unreachable", "non_200", "api_error", "no_candidates", "no_parts",
     "unparsable", "not_array", "bare_object", "tasks"}

\* _generate_prompt_hash
generate_prompt_hash(transcript_data) == transcript_data.key_data

\* make_request raises: session.post fails, raise_for_status, 'error' in data
make_request_raises(outcome) ==
    outcome \in {"unreachable", "non_200", "api_error"}

\* _execute_request_with_retry: circuit_breaker.call(make_request)
execute_request_with_retry(b, t, outcome) ==
    LET ce == can_execute(b, t) IN
    IF ~ce.ok
    THEN [b |-> ce.b, raised |-> TRUE, requested |-> FALSE]
    ELSE IF make_request_raises(outcome)
    THEN [b |-> record_failure(ce.b, t), raised |-> TRUE, requested |-> TRUE]
    ELSE [b |-> record_success(ce.b, t), raised |-> FALSE, requested |-> TRUE]

\* extract_tasks_from_transcript, from the response to the parsed list:
\* anything but a JSON array gives no list
parse_response(outcome, n) ==
    IF outcome = "tasks"
    THEN [is_list |-> TRUE, n |-> n]
    ELSE [is_list |-> FALSE, n |-> 0]

\* extract_tasks_from_cache with _parse_ai_output: a single object is
\* wrapped in a list, anything else that is no list gives []
parse_ai_output(outcome, n) ==
    CASE outcome = "tasks" -> n
      [] outcome = "bare_object" -> 1
      [] OTHER -> 0

ExtractTasksFromTranscript(transcript_data, outcome, n) ==
    /\ LET h == generate_prompt_hash(transcript_data)
           r == execute_request_with_retry(cb, now, outcome)
           p == parse_response(outcome, n)
       IN
       IF gemini_cache[h].present
       THEN /\ extraction' = [fn |-> "extract_tasks_from_transcript",
                              outcome |-> "cache_hit", failed |-> FALSE,
                              returned |-> gemini_cache[h].n, raised |-> FALSE,
                              content |-> transcript_data.content,
                              from_content |-> gemini_cache[h].content]
            /\ UNCHANGED <<cb, net, gemini_cache>>
       ELSE IF transcript_data.summary_null
       THEN \* building the prompt: None.get('action_items', ..)
            /\ extraction' = [fn |-> "extract_tasks_from_transcript",
                              outcome |-> "AttributeError", failed |-> TRUE,
                              returned |-> 0, raised |-> TRUE,
                              content |-> transcript_data.content,
                              from_content |-> 0]
            /\ UNCHANGED <<cb, net, gemini_cache>>
       ELSE /\ cb' = r.b
            /\ net' = IF r.requested THEN Completed(net, "gemini", TRUE) ELSE net
            /\ IF ~r.raised /\ p.is_list
               THEN /\ gemini_cache' = [gemini_cache EXCEPT ![h] =
                            [present |-> TRUE, n |-> p.n,
                             content |-> transcript_data.content]]
                    /\ extraction' = [fn |-> "extract_tasks_from_transcript",
                              outcome |-> outcome, failed |-> FALSE,
                              returned |-> p.n, raised |-> FALSE,
                              content |-> transcript_data.content,
                              from_content |-> transcript_data.content]
               ELSE /\ UNCHANGED gemini_cache
                    /\ extraction' = [fn |-> "extract_tasks_from_transcript",
                              outcome |-> IF r.requested THEN outcome
                                          ELSE "CircuitBreakerOpenError",
                              failed |-> TRUE,
                              returned |-> 0, raised |-> FALSE,
                              content |-> transcript_data.content,
                              from_content |-> 0]
    /\ lastOp' = [op |-> "extract_tasks_from_transcript", t |-> 0,
                  result |-> extraction'.outcome, key |-> 0]
    /\ UNCHANGED <<now, pc, keyVars, regVars, delVars, ingVars, retryVars,
                   pipeVars, sendVars,
                   lateVars, pagingVars, todayVars>>

\* the raw payload of the RawTranscriptCache row of a transcript id
raw_fireflies_data(id) == 1

\* cache_item: the RawTranscriptCache row of id; valid: how many of the parsed
\* objects _create_processed_task turns into a ProcessedTaskData (all the
\* required fields present), the first of them creating the Transcript row
ExtractTasksFromCache(id, outcome, n, valid) ==
    /\ LET r == execute_request_with_retry(cb, now, outcome)
           parsed == IF r.raised \/ outcome \in {"no_candidates", "no_parts"}
                     THEN 0
                     ELSE parse_ai_output(outcome, n)
           created == Min(valid, parsed)
           rows == IF created > 0
                   THEN get_or_create_transcript(transcript_rows, id,
                                                 raw_fireflies_data(id))
                   ELSE transcript_rows
       IN
       /\ cb' = r.b
       /\ net' = IF r.requested THEN Completed(net, "gemini", TRUE) ELSE net
       /\ transcript_rows' = rows
       /\ first_write' = NoteFirstWrite(first_write, rows)
       /\ extraction' = [fn |-> "extract_tasks_from_cache",
                         outcome |-> IF r.requested THEN outcome
                                     ELSE "CircuitBreakerOpenError",
                         failed |-> r.raised \/ outcome # "tasks",
                         returned |-> created, raised |-> FALSE,
                         content |-> 0,
                         from_content |-> 0]
    /\ lastOp' = [op |-> "extract_tasks_from_cache", t |-> 0,
                  result |-> extraction'.outcome, key |-> 0]
    /\ UNCHANGED <<now, pc, keyVars, regVars, delVars, ff_cache, fetched, ipc,
                   retryVars, pipeVars, sendVars, gemini_cache,
                   lateVars, pagingVars, todayVars>>

\* the cache drops an entry when its timeout (cache_timeout, 1800 s) is over
ExtractionCacheExpires(h) ==
    /\ gemini_cache[h].present
    /\ gemini_cache' = [gemini_cache EXCEPT ![h] = NoResult]
    /\ lastOp' = [op |-> "cache_expires", t |-> 0, result |-> "none", key |-> h]
    /\ UNCHANGED <<now, net, cbVars, keyVars, regVars, delVars, ingVars,
                   retryVars, pipeVars, sendVars, extraction,
                   lateVars, pagingVars, todayVars>>

NextExtract ==
    \/ \E td \in TranscriptData, outcome \in GeminiOutcomes,
          n \in 0..MaxExtracted :
          ExtractTasksFromTranscript(td, outcome, n)
    \/ \E id \in TIds, outcome \in GeminiOutcomes,
          n \in 0..MaxExtracted, valid \in 0..MaxExtracted :
          ExtractTasksFromCache(id, outcome, n, valid)
    \/ \E h \in PromptHashes : ExtractionCacheExpires(h)

SpecExtract == Init /\ [][NextExtract]_vars

(***************************************************************************)
(* Priority and status of the task records created from one object of the  *)
(* LLM response: PrecisionTaskExtractor._create_processed_task builds a    *)
(* ProcessedTaskData, process_last_5_meetings.process_meeting_with_gemini  *)
(* stores a GeminiProcessedTask.  "missing": the key is absent from the    *)
(* object; "null": its value is JSON null.                                 *)
(***************************************************************************)
PRIORITY_CHOICES == {"High", "Medium", "Low"}
STATUS_CHOICES ==
    {"To Do", "Stuck", "Working on it", "Waiting for review", "Approved", "Done"}
ResponsePriorities == PRIORITY_CHOICES \cup {"Urgent", "high", "missing", "null"}
ResponseStatuses == STATUS_CHOICES \cup {"In Progress", "missing", "null"}
NoTaskRecord(fn, p, s) ==
    [fn |-> fn, in_priority |-> p, in_status |-> s, stored |-> FALSE,
     priority |-> "none", status |-> "none"]

\* _create_processed_task: None when a required field is missing, else the
\* value if it is one of the choices and the default otherwise
create_processed_task(p, s) ==
    IF p = "missing" \/ s = "missing"
    THEN NoTaskRecord("_create_processed_task", p, s)
    ELSE [fn |-> "_create_processed_task", in_priority |-> p, in_status |-> s,
          stored |-> TRUE,
          priority |-> IF p \in PRIORITY_CHOICES THEN p ELSE "Medium",
          status |-> IF s \in STATUS_CHOICES THEN s ELSE "To Do"]

\* dict.get(key, default): the default only when the key is absent
dict_get(v, default) == IF v = "missing" THEN default ELSE v

\* process_meeting_with_gemini: GeminiProcessedTask.objects.create with
\* task_data.get('priority', 'Medium') and task_data.get('status', 'To Do');
\* a null value violates NOT NULL and the row is not stored
gemini_processed_task_create(p, s) ==
    IF p = "null" \/ s = "null"
    THEN NoTaskRecord("process_meeting_with_gemini", p, s)
    ELSE [fn |-> "process_meeting_with_gemini", in_priority |-> p,
          in_status |-> s, stored |-> TRUE,
          priority |-> dict_get(p, "Medium"),
          status |-> dict_get(s, "To Do")]

CreateProcessedTask(p, s) ==
    /\ created_task' = create_processed_task(p, s)
    /\ lastOp' = [op |-> "_create_processed_task", t |-> 0,
                  result |-> created_task'.priority, key |-> 0]
    /\ UNCHANGED <<now, net, cbVars, keyVars, regVars, delVars, ingVars,
                   retryVars, pipeVars, sendVars, extVars, staleVars, cmVars,
                   pagingVars, todayVars>>

ProcessMeetingWithGemini(p, s) ==
    /\ created_task' = gemini_processed_task_create(p, s)
    /\ lastOp' = [op |-> "process_meeting_with_gemini", t |-> 0,
                  result |-> created_task'.priority, key |-> 0]
    /\ UNCHANGED <<now, net, cbVars, keyVars, regVars, delVars, ingVars,
                   retryVars, pipeVars, sendVars, extVars, staleVars, cmVars,
                   pagingVars, todayVars>>

NextClamp ==
    \/ \E p \in ResponsePriorities, s \in ResponseStatuses :
          CreateProcessedTask(p, s)
    \/ \E p \in ResponsePriorities, s \in ResponseStatuses :
          ProcessMeetingWithGemini(p, s)

SpecClamp == Init /\ [][NextClamp]_vars

(***************************************************************************)
(* CacheManager.is_cache_stale.  The backends hold one entry, written by a *)
(* setter of the CacheManager (with expires_at = now + timeout and the     *)
(* same timeout as the backend's own time to live) or straight into the    *)
(* backend (any data, no time to live).  An expires_at string is its       *)
(* format and the instant it denotes.                                      *)
(***************************************************************************)
prefix_map ==
    {"fireflies_comprehensive", "fireflies_today", "gemini_extraction",
     "system_health", "api_status"}
CacheTypes == prefix_map \cup {"monday_delivery"}
Instants == {i * TickStep : i \in 0..(MaxTime \div TickStep)}
Timeouts == {TickStep, 2 * TickStep}    \* the setters' timeout argument
NoData == [kind |-> "none", fmt |-> "none", t |-> 0]
EntryData ==
    {[kind |-> "list", fmt |-> "none", t |-> 0],     \* no dict
     [kind |-> "dict", fmt |-> "none", t |-> 0],     \* no 'expires_at' key
     [kind |-> "dict", fmt |-> "garbage", t |-> 0]}  \* no ISO date
    \cup [kind : {"dict"}, fmt : {"offset", "Z", "naive"}, t : Instants]

\* cache_backend.get(key): None for another key and for an entry whose time
\* to live is over (FileBasedCache: exp < time.time())
backend_get(entry, cache_type, t) ==
    IF /\ entry.present
       /\ entry.cache_type = cache_type
       /\ (entry.ttl_until = NoTime \/ t <= entry.ttl_until)
    THEN entry.data
    ELSE NoData

\* data['expires_at'].replace('Z', '+00:00')
replace_z(s) == IF s.fmt = "Z" THEN [s EXCEPT !.fmt = "offset"] ELSE s

\* datetime.fromisoformat: ValueError for text that is no ISO date (a
\* trailing 'Z' included), a naive datetime for a date without offset
fromisoformat(s) ==
    CASE s.fmt = "offset" -> [ok |-> TRUE, aware |-> TRUE, t |-> s.t]
      [] s.fmt = "naive" -> [ok |-> TRUE, aware |-> FALSE, t |-> s.t]
      [] OTHER -> [ok |-> FALSE, aware |-> FALSE, t |-> 0]

is_cache_stale_mut_default_fresh(cache_type, entry, t) ==
    IF cache_type \notin prefix_map
    THEN TRUE
    ELSE LET data == backend_get(entry, cache_type, t) IN
         IF data = NoData
         THEN TRUE
         ELSE IF data.kind = "dict" /\ data.fmt # "none"
         THEN LET expires_at == fromisoformat(replace_z(data)) IN
              IF ~expires_at.ok \/ ~expires_at.aware
              THEN TRUE
              ELSE t > expires_at.t
         ELSE FALSE

\* comparing now (aware) with a naive datetime raises TypeError, which the
\* function catches together with ValueError
is_cache_stale(cache_type, entry, t) ==
    IF cache_type \notin prefix_map
    THEN TRUE
    ELSE LET data == backend_get(entry, cache_type, t) IN
         IF data = NoData
         THEN TRUE
         ELSE IF data.kind = "dict" /\ data.fmt # "none"
         THEN LET expires_at == fromisoformat(replace_z(data)) IN
              IF ~expires_at.ok \/ ~expires_at.aware
              THEN TRUE
              ELSE t > expires_at.t
         ELSE TRUE

\* set_fireflies_transcripts, set_gemini_extraction, set_system_health,
\* set_api_status, and set_fireflies_today, which stores no expires_at
SetCached(cache_type, seconds) ==
    /\ cm_entry' = [present |-> TRUE, cache_type |-> cache_type,
                    data |-> IF cache_type = "fireflies_today"
                             THEN [kind |-> "dict", fmt |-> "none", t |-> 0]
                             ELSE [kind |-> "dict", fmt |-> "offset",
                                   t |-> now + seconds],
                    ttl_until |-> now + seconds]
    /\ lastOp' = [op |-> "set_cached", t |-> 0, result |-> cache_type, key |-> 0]
    /\ UNCHANGED <<now, net, cbVars, keyVars, regVars, delVars, ingVars,
                   retryVars, pipeVars, sendVars, extVars, clampVars,
                   cmVars, stale_check,
                   pagingVars, todayVars>>

\* cache.set(key, data) by code that does not go through the setters
BackendSet(cache_type, data) ==
    /\ cm_entry' = [present |-> TRUE, cache_type |-> cache_type,
                    data |-> data, ttl_until |-> NoTime]
    /\ lastOp' = [op |-> "backend_set", t |-> 0, result |-> cache_type, key |-> 0]
    /\ UNCHANGED <<now, net, cbVars, keyVars, regVars, delVars, ingVars,
                   retryVars, pipeVars, sendVars, extVars, clampVars,
                   cmVars, stale_check,
                   pagingVars, todayVars>>

IsCacheStale(cache_type) ==
    /\ stale_check' = [called |-> TRUE, cache_type |-> cache_type,
                       result |-> is_cache_stale(cache_type, cm_entry, now)]
    /\ lastOp' = [op |-> "is_cache_stale", t |-> 0, result |-> cache_type,
                  key |-> 0]
    /\ UNCHANGED <<now, net, cbVars, keyVars, regVars, delVars, ingVars,
                   retryVars, pipeVars, sendVars, extVars, clampVars, cmVars,
                   cm_entry,
                   pagingVars, todayVars>>

NextStale ==
    \/ Tick(TickStep, MaxTime)
    \/ \E cache_type \in prefix_map, seconds \in Timeouts :
          SetCached(cache_type, seconds)
    \/ \E cache_type \in prefix_map, data \in EntryData :
          BackendSet(cache_type, data)
    \/ \E cache_type \in CacheTypes : IsCacheStale(cache_type)

SpecStale == Init /\ [][NextStale]_vars

(***************************************************************************)
(* The CacheManager's operations when the backend may raise (the cache     *)
(* directory is not writable, a file is corrupt).  The three getters and   *)
(* is_cache_stale call the backend outside any try block; the setters call *)
(* it inside try / except Exception.                                       *)
(***************************************************************************)
Getters ==
    {"get_fireflies_transcripts", "get_fireflies_today", "get_gemini_extraction"}

\* the cache type whose key a getter reads
getter_type(op) ==
    CASE op = "get_fireflies_transcripts" -> "fireflies_comprehensive"
      [] op = "get_fireflies_today" -> "fireflies_today"
      [] OTHER -> "gemini_extraction"

\* get_fireflies_transcripts(force_refresh), get_fireflies_today,
\* get_gemini_extraction: cache.delete / cache.get, then the log line
GetCached(op, force_refresh, backend_raises) ==
    /\ force_refresh => op = "get_fireflies_transcripts"
    /\ LET data == backend_get(cm_entry, getter_type(op), now) IN
       IF backend_raises
       THEN /\ cm_call' = [op |-> op, backend_raises |-> TRUE,
                           raised |-> TRUE, result |-> "none"]
            /\ UNCHANGED cm_entry
       ELSE IF force_refresh
       THEN /\ cm_call' = [op |-> op, backend_raises |-> FALSE,
                           raised |-> FALSE, result |-> "None"]
            /\ cm_entry' = IF cm_entry.present
                              /\ cm_entry.cache_type = getter_type(op)
                           THEN [present |-> FALSE, cache_type |-> "none",
                                 data |-> NoData, ttl_until |-> NoTime]
                           ELSE cm_entry
       ELSE /\ cm_call' = [op |-> op, backend_raises |-> FALSE,
                           raised |-> FALSE,
                           result |-> IF data = NoData THEN "None" ELSE "data"]
            /\ UNCHANGED cm_entry
    /\ lastOp' = [op |-> op, t |-> 0, result |-> cm_call'.result, key |-> 0]
    /\ UNCHANGED <<now, net, cbVars, keyVars, regVars, delVars, ingVars,
                   retryVars, pipeVars, sendVars, extVars, clampVars,
                   stale_check,
                   pagingVars, todayVars>>

\* a setter whose cache.set raises: except Exception, return False
SetCachedFails(cache_type) ==
    /\ cm_call' = [op |-> "set", backend_raises |-> TRUE, raised |-> FALSE,
                   result |-> "False"]
    /\ lastOp' = [op |-> "set_cached", t |-> 0, result |-> "False", key |-> 0]
    /\ UNCHANGED <<now, net, cbVars, keyVars, regVars, delVars, ingVars,
                   retryVars, pipeVars, sendVars, extVars, clampVars,
                   cm_entry, stale_check,
                   pagingVars, todayVars>>

\* is_cache_stale when cache_backend.get raises: only ValueError and
\* TypeError of the parsing are caught, and the call comes after the test
\* of the cache type
IsCacheStaleFails(cache_type) ==
    /\ IF cache_type \notin prefix_map
       THEN cm_call' = [op |-> "is_cache_stale", backend_raises |-> FALSE,
                        raised |-> FALSE, result |-> "True"]
       ELSE cm_call' = [op |-> "is_cache_stale", backend_raises |-> TRUE,
                        raised |-> TRUE, result |-> "none"]
    /\ lastOp' = [op |-> "is_cache_stale_fails", t |-> 0,
                  result |-> cm_call'.result, key |-> 0]
    /\ UNCHANGED <<now, net, cbVars, keyVars, regVars, delVars, ingVars,
                   retryVars, pipeVars, sendVars, extVars, clampVars,
                   cm_entry, stale_check,
                   pagingVars, todayVars>>

NextCacheManager ==
    \/ Tick(TickStep, MaxTime)
    \/ \E cache_type \in prefix_map, seconds \in Timeouts :
          SetCached(cache_type, seconds)
    \/ \E op \in Getters, force_refresh \in BOOLEAN, backend_raises \in BOOLEAN :
          GetCached(op, force_refresh, backend_raises)
    \/ \E cache_type \in prefix_map : SetCachedFails(cache_type)
    \/ \E cache_type \in CacheTypes : IsCacheStaleFails(cache_type)

SpecCacheManager == Init /\ [][NextCacheManager]_vars

(***************************************************************************)
(* _fetch_with_pagination, one pass of its while loop at a time.  Every    *)
(* pass posts the same query with the same variables (mine, limit), so an  *)
(* upstream that holds `available` transcripts answers each request with   *)
(* its first min(available, limit) transcripts.  The pass that leaves the  *)
(* loop also caches and saves the list and returns it.                     *)
(***************************************************************************)
limit == 50                     \* _fetch_with_pagination: page size
PageKinds == {"ok", "fail", "unexpected"}

\* data.transcripts of the answer to ListTranscripts(mine, limit)
list_transcripts(available) ==
    [i \in 1..Min(available, limit) |-> [id |-> i, raw |-> 1]]

loop_continues_mut_no_cap(page) == TRUE

\* while page <= max_pages
loop_continues(page) == page <= max_pages

RECURSIVE Flatten(_)
Flatten(pages) ==
    IF pages = <<>> THEN <<>> ELSE Head(pages) \o Flatten(Tail(pages))

\* _save_transcripts_to_database(all_transcripts): its loop over the list,
\* taken one received page after the other
RECURSIVE save_pages(_, _)
save_pages(rows, pages) ==
    IF pages = <<>>
    THEN rows
    ELSE save_pages(save_transcripts_to_database(rows, Head(pages), 1),
                    Tail(pages))

FetchWithPagination(available) ==
    /\ paging.status = "idle"
    /\ paging' = [status |-> "running", page |-> 1, requests |-> 0,
                  available |-> available, all_transcripts |-> <<>>,
                  received |-> <<>>, returned |-> <<>>, last |-> "none"]
    /\ lastOp' = [op |-> "_fetch_with_pagination", t |-> 0, result |-> "none",
                  key |-> 0]
    /\ UNCHANGED <<now, net, cbVars, keyVars, regVars, delVars, ingVars,
                   retryVars, pipeVars, sendVars, extVars, lateVars,
                   todayVars>>

\* kind: what _execute_query_with_failover gives; cache_ok, db_ok: whether
\* set_fireflies_transcripts and the database transaction succeed
PageRequest(kind, cache_ok, db_ok) ==
    /\ paging.status = "running"
    /\ loop_continues(paging.page)
    /\ LET transcripts == IF kind = "ok"
                          THEN list_transcripts(paging.available)
                          ELSE <<>>
           all == paging.all_transcripts \o transcripts
           last == CASE kind # "ok" -> kind
                     [] transcripts = <<>> -> "empty"
                     [] Len(transcripts) < limit -> "short"
                     [] OTHER -> "full"
           leaves == last # "full" \/ ~loop_continues(paging.page + 1)
           received == IF kind = "ok" /\ transcripts # <<>>
                       THEN Append(paging.received, transcripts)
                       ELSE paging.received
           rows == IF leaves /\ db_ok
                   THEN save_pages(transcript_rows, received)
                   ELSE transcript_rows
       IN
       /\ paging' = [paging EXCEPT
                        !.status = IF leaves THEN "done" ELSE "running",
                        !.page = IF last = "full" THEN @ + 1 ELSE @,
                        !.requests = @ + 1,
                        !.all_transcripts = all,
                        !.received = received,
                        !.returned = IF leaves THEN all ELSE <<>>,
                        !.last = last]
       /\ ff_cache' = IF leaves /\ all # <<>> /\ cache_ok
                      THEN [present |-> TRUE, transcripts |-> all]
                      ELSE ff_cache
       /\ transcript_rows' = rows
       /\ first_write' = NoteFirstWrite(first_write, rows)
       /\ net' = Completed(net, "fireflies", FALSE)
       /\ lastOp' = [op |-> "page_request", t |-> paging.page, result |-> last,
                     key |-> 0]
    /\ UNCHANGED <<now, cbVars, keyVars, regVars, delVars, fetched, ipc,
                   retryVars, pipeVars, sendVars, extVars, lateVars,
                   todayVars>>

NextPaginate ==
    \/ \E available \in 0..MaxUpstream : FetchWithPagination(available)
    \/ \E kind \in PageKinds, cache_ok \in BOOLEAN, db_ok \in BOOLEAN :
          PageRequest(kind, cache_ok, db_ok)

SpecPaginate == Init /\ [][NextPaginate]_vars

\* the loop is straight-line code of one thread: a started fetch goes on
SpecPaginateLive ==
    SpecPaginate
    /\ WF_vars(\E kind \in PageKinds, cache_ok \in BOOLEAN, db_ok \in BOOLEAN :
                  PageRequest(kind, cache_ok, db_ok))

(***************************************************************************)
(* fireflies_client.py: get_today_transcripts.  The today entry of the     *)
(* cache is keyed by the current UTC date; TodayCacheExpires is the entry  *)
(* no longer being served (its timeout passed, or the UTC date changed).   *)
(* Which meetings were held on the current UTC date is a property of the   *)
(* upstream data: the transcripts with an odd id.                          *)
(***************************************************************************)
NoTodayEntry == [present |-> FALSE, transcripts |-> <<>>, fetch_failed |-> FALSE]

\* transcript_date.strftime('%Y-%m-%d') == today
is_today(transcript) == transcript.id % 2 = 1

\* the filter loop of get_today_transcripts
today_filter(all_transcripts) == SelectSeq(all_transcripts, is_today)

\* the cache check of get_today_transcripts: the cached dict is non-empty
\* and has the key 'transcripts' whenever an entry is served
today_cache_hit(entry) == entry.present

\* cache_ok: fireflies_cache.set of set_fireflies_today succeeds
GetTodayTranscripts(pages, db_ok, cache_ok) ==
    /\ IF today_cache_hit(today_cache)
       THEN /\ today_call' = [called |-> TRUE, from_cache |-> TRUE,
                              fetch_failed |-> today_cache.fetch_failed,
                              returned |-> today_cache.transcripts]
            /\ UNCHANGED <<today_cache, ff_cache, transcript_rows,
                           first_write, fetched>>
       ELSE /\ get_comprehensive_transcripts_with_pagination(FALSE, pages, db_ok)
            /\ LET today_transcripts == today_filter(fetched'.returned) IN
               /\ today_cache' =
                    IF cache_ok
                    THEN [present |-> TRUE, transcripts |-> today_transcripts,
                          fetch_failed |-> fetched'.failed]
                    ELSE today_cache
               /\ today_call' = [called |-> TRUE, from_cache |-> FALSE,
                                 fetch_failed |-> fetched'.failed,
                                 returned |-> today_transcripts]
    /\ lastOp' = [op |-> "get_today_transcripts", t |-> 0,
                  result |-> IF today_cache_hit(today_cache)
                             THEN "cache" ELSE "api",
                  key |-> 0]
    /\ UNCHANGED <<now, net, cbVars, keyVars, regVars, delVars, retryVars,
                   pipeVars, sendVars, ipc, extVars, lateVars, pagingVars>>

TodayCacheExpires ==
    /\ today_cache.present
    /\ today_cache' = NoTodayEntry
    /\ lastOp' = [op |-> "today_cache_expires", t |-> 0, result |-> "none",
                  key |-> 0]
    /\ UNCHANGED <<now, net, cbVars, keyVars, regVars, delVars, ingVars,
                   retryVars, pipeVars, sendVars, extVars, lateVars,
                   pagingVars, today_call>>

NextToday ==
    \/ \E pages \in PageRuns, db_ok \in BOOLEAN, cache_ok \in BOOLEAN :
         GetTodayTranscripts(pages, db_ok, cache_ok)
    \/ TodayCacheExpires
    \/ CacheExpires

SpecToday == Init /\ [][NextToday]_vars

(***************************************************************************)
(* Claims about the circuit breaker (checked under SpecCB).                *)
(***************************************************************************)

\* C3: a Closed breaker opens on exactly the record_failure that makes
\* failure_count reach failure_threshold, not before; hence no reachable
\* state is Closed with failure_count >= failure_threshold.
C3_ClosedOpensAtThreshold ==
    /\ [](~(cb.state = "CLOSED" /\ cb.failure_count >= failure_threshold))
    /\ [][(cb.state = "CLOSED" /\ lastOp'.op = "record_failure")
            => /\ cb'.failure_count = cb.failure_count + 1
               /\ (cb'.state = "OPEN") <=> (cb'.failure_count >= failure_threshold)
               /\ cb'.state \in {"CLOSED", "OPEN"}]_vars

C3_Witness ==
    /\ cb.state = "OPEN"
    /\ cb.failure_count = failure_threshold
    /\ lastOp.op = "record_failure"

\* C4: while Open with less than timeout seconds since last_failure_time, a
\* call raises CircuitBreakerOpenError, func is not invoked and the breaker
\* is unchanged; a call made once timeout seconds have elapsed is admitted,
\* sets Half-Open and invokes func.
C4_OpenRejectsUntilTimeout ==
    [][(cb.state = "OPEN" /\ lastOp'.op = "call")
        => IF now - cb.last_failure_time < timeout
           THEN /\ lastOp'.result = "CircuitBreakerOpenError"
                /\ cb' = cb
                /\ pc' = pc
           ELSE /\ lastOp'.result = "admitted"
                /\ cb' = [cb EXCEPT !.state = "HALF_OPEN"]
                /\ pc'[lastOp'.t] = "in_func"]_vars

C4_Witness ==
    /\ cb.state = "HALF_OPEN"
    /\ lastOp.op = "call"
    /\ lastOp.result = "admitted"
    /\ pc[lastOp.t] = "in_func"
    /\ now - cb.last_failure_time = timeout
    /\ cb.success_count = 0

\* C5: while Half-Open, any recorded failure sends the breaker back to Open
\* and resets failure_count.
C5_HalfOpenFailureReopens ==
    [][(cb.state = "HALF_OPEN" /\ lastOp'.op = "record_failure")
        => (cb'.state = "OPEN" /\ cb'.failure_count = 0)]_vars

\* C6: in Half-Open, the record_success that brings success_count to
\* success_threshold closes the breaker and sets failure_count to 0; while
\* success_count stays below the threshold the breaker stays Half-Open.
C6_HalfOpenClosesAtThreshold ==
    [][(cb.state = "HALF_OPEN" /\ lastOp'.op = "record_success")
        => /\ cb'.success_count = cb.success_count + 1
           /\ IF cb'.success_count >= success_threshold
              THEN cb'.state = "CLOSED" /\ cb'.failure_count = 0
              ELSE cb'.state = "HALF_OPEN" /\ cb'.failure_count = cb.failure_count]_vars

C6_Witness ==
    /\ cb.state = "CLOSED"
    /\ lastOp.op = "record_success"
    /\ cb.success_count = success_threshold
    /\ cb.failure_count = 0
    /\ cb.last_failure_time # NoTime

(***************************************************************************)
(* Claims about delivery (checked under SpecDeliver).                      *)
(***************************************************************************)

\* C1: no create-item request is sent to the project-management API for a
\* task that has not been human-approved, on every pipeline path
\* (deliver_processed_task and run_end_to_end_pipeline without --dry-run).
C1_CreateOnlyAfterApproval ==
    \A r \in create_requests : r.approved

\* C2: deliver_processed_task on a task whose delivery_status is already
\* 'delivered' sends no create-item request, leaves the task record
\* unchanged and returns success (the existing remote item id), however
\* often it is repeated.
C2_DeliveredIsNoOpSuccess ==
    [][\A i \in 1..Len(tasks) :
          (/\ lastOp'.op = "deliver_processed_task"
           /\ lastOp'.t = i
           /\ tasks[i].delivery_status = "delivered"
           /\ tasks[i].monday_item_id # NoItem)
          => /\ tasks' = tasks
             /\ create_requests' = create_requests
             /\ lastOp'.result = "True"]_vars

(***************************************************************************)
(* Claims about the upstream clients, the registry and the key pool.       *)
(***************************************************************************)

\* C7: for the Fireflies and the Gemini API, every network request goes
\* through the dependency's circuit breaker: the outcome of every request
\* is recorded in the breaker (and none is issued unless the breaker
\* admitted it).
C7_EveryRequestThroughBreaker ==
    \A d \in Deps : net[d].recorded = net[d].requests

\* C8: the registry holds exactly one breaker instance per name: every
\* get_or_create(name), also from interleaved threads, returns the same
\* object for that name, and a new breaker starts Closed with that name.
C8_OneBreakerPerName ==
    /\ \A r1 \in got, r2 \in got : r1.name = r2.name => r1.obj = r2.obj
    /\ \A r \in got : /\ heap[r.obj].name = r.name
                      /\ heap[r.obj].b.state = "CLOSED"
    /\ \A i \in 1..Len(heap), j \in 1..Len(heap) :
          heap[i].name = heap[j].name => i = j

\* C9: get_next_available_key is round-robin over the keys whose cooldown
\* has expired: with k >= 2 active keys, k consecutive calls return k
\* distinct keys, and an inactive key is skipped while another is active.
C9_RoundRobinOverActiveKeys ==
    LET active == {k \in Keys : key_status[k].active}
        n == Cardinality(active)
    IN /\ n >= 2 =>
            \A i \in 1..Len(returned), j \in 1..Len(returned) :
                (i < j /\ j - i < n) => returned[i] # returned[j]
       /\ active # {} => \A i \in 1..Len(returned) : returned[i] \in active

\* C10: after mark_key_unavailable(key, error, duration) the key is
\* inactive, and is not returned by get_next_available_key while another
\* key is active, until duration seconds have elapsed.
C10_InactiveUntilCooldownEnds ==
    /\ [](\A k \in Keys :
            (cooldown_until[k] # NoTime /\ now < cooldown_until[k])
               => ~key_status[k].active)
    /\ [][\A k \in Keys :
            (/\ lastOp'.op \in {"get_next_available_key", "post"}
             /\ lastOp'.key = k
             /\ cooldown_until[k] # NoTime
             /\ now' < cooldown_until[k]
             /\ \E j \in Keys \ {k} : key_status[j].active)
            => FALSE]_vars

(***************************************************************************)
(* Claims about fetching and ingestion (SpecFetch, SpecIngest).            *)
(***************************************************************************)

\* C11: when the upstream fails during a comprehensive fetch and cached or
\* persisted transcripts exist, the call returns a non-empty result and
\* raises no error to the caller.
C11_FallbackOnUpstreamFailure ==
    (fetched.failed /\ fetched.fallback) =>
        (fetched.returned # <<>> /\ ~fetched.raised)

\* C12: the Transcript table holds at most one row per fireflies_id, and
\* the raw_data of the row of an id is the payload it was first stored with.
C12_OneRowFirstWriteWins ==
    /\ \A r1, r2 \in transcript_rows :
         r1.fireflies_id = r2.fireflies_id => r1 = r2
    /\ \A r \in transcript_rows : r.raw_data = first_write[r.fireflies_id]

(***************************************************************************)
(* Claims about delivery retries and delivery_errors (SpecDeliver,         *)
(* SpecPush).                                                              *)
(***************************************************************************)

\* C13: a deliver_processed_task call on an approved task whose earlier
\* delivery failed attempts the remote creation again, and in
\* bulk_deliver_tasks every task that is ready is attempted whatever
\* happened to the tasks before it.
C13_FailedDeliveryIsRetried ==
    [][\A i \in 1..Len(tasks) :
          /\ (/\ lastOp'.op = "deliver_processed_task"
              /\ lastOp'.t = i
              /\ tasks[i].human_approved
              /\ tasks[i].assignee_emails # ""
              /\ tasks[i].delivery_status = "failed")
                => lastOp'.key = 1
          /\ (lastOp'.op = "bulk_deliver_tasks" /\ is_ready_for_delivery(tasks[i]))
                => tasks'[i].delivery_status \in {"delivered", "failed"}]_vars

\* C14: a failed delivery attempt appends one entry to delivery_errors and
\* sets delivery_status to 'failed', and no step removes or replaces an
\* entry of the delivery_errors of a ProcessedTaskData or
\* GeminiProcessedTask row.
C14_DeliveryErrorsAppendOnly ==
    [][/\ \A i \in 1..Len(tasks) :
            /\ Len(tasks'[i].delivery_errors) >= Len(tasks[i].delivery_errors)
            /\ SubSeq(tasks'[i].delivery_errors, 1, Len(tasks[i].delivery_errors))
                  = tasks[i].delivery_errors
            /\ (/\ lastOp'.op = "deliver_processed_task"
                /\ lastOp'.t = i
                /\ lastOp'.key = 1
                /\ lastOp'.result = "False")
                  => /\ tasks'[i].delivery_status = "failed"
                     /\ Len(tasks'[i].delivery_errors)
                           = Len(tasks[i].delivery_errors) + 1
       /\ \A g \in 1..Len(gemini_tasks) :
            /\ Len(gemini_tasks'[g].delivery_errors)
                  >= Len(gemini_tasks[g].delivery_errors)
            /\ SubSeq(gemini_tasks'[g].delivery_errors, 1,
                      Len(gemini_tasks[g].delivery_errors))
                  = gemini_tasks[g].delivery_errors]_vars

(***************************************************************************)
(* Claims about the Monday.com retry wrapper (SpecRetry).                  *)
(***************************************************************************)

\* C15: one execution of _execute_query_with_retry sends at most
\* retry_attempts requests; the k-th sleep lasts
\* min(backoff_factor^(k-1), max_backoff_time) and there is none after the
\* last attempt; every failed request is one failure recorded in the
\* breaker; after retry_attempts transient failures the RequestException
\* is raised; a CircuitBreakerOpenError or a non-transient error ends the
\* execution at once, the former without any request being sent.
C15_BoundedRetryWithBackoff ==
    /\ [](/\ retry.calls <= retry_attempts
          /\ Len(retry.sleeps) <= retry_attempts - 1
          /\ \A k \in 1..Len(retry.sleeps) :
                retry.sleeps[k] = Min(Pow(backoff_factor, k - 1), max_backoff_time)
          /\ retry.status = "running" => Len(retry.sleeps) = retry.calls
          /\ retry.status # "idle" =>
                cb.failure_count = retry.failures_before + retry.calls
                                     - (IF retry.status = "returned" THEN 1 ELSE 0)
          /\ (retry.status = "raised" /\ retry.error = "RequestException") =>
                (retry.calls = retry_attempts
                   /\ Len(retry.sleeps) = retry_attempts - 1))
    /\ [][(lastOp'.op = "retry_attempt") =>
            /\ lastOp'.result = "CircuitBreakerOpenError" =>
                 /\ retry'.status = "raised"
                 /\ retry'.calls = retry.calls
                 /\ retry'.sleeps = retry.sleeps
                 /\ now' = now
            /\ lastOp'.result = "Exception" =>
                 /\ retry'.status = "raised"
                 /\ retry'.calls = retry.calls + 1
                 /\ retry'.sleeps = retry.sleeps
            /\ lastOp'.result = "RequestException" =>
                 /\ retry'.calls = retry.calls + 1
                 /\ IF retry.calls + 1 < retry_attempts
                    THEN retry'.status = "running"
                    ELSE retry'.status = "raised" /\ retry'.sleeps = retry.sleeps]_vars

C15_Witness ==
    /\ retry.status = "raised"
    /\ retry.error = "RequestException"
    /\ retry.calls = retry_attempts
    /\ retry.sleeps = <<1, 2>>
    /\ cb.failure_count = retry.failures_before + retry_attempts

(***************************************************************************)
(* Claims about the end-to-end pipeline run (SpecPipeline).                *)
(***************************************************************************)

\* C16: a pipeline run that has ended has emitted its summary report, and
\* a transcript whose processing raises adds one entry to the error list
\* while the run goes on with the remaining transcripts.
C16_RunEndsWithSummary ==
    /\ [](pipeline.status = "done" => pipeline.summary)
    /\ [][(lastOp'.op = "handle_transcript" /\ lastOp'.result = "exception") =>
            /\ pipeline'.errors = pipeline.errors + 1
            /\ pipeline'.status = "processing"
            /\ pipeline'.remaining = pipeline.remaining - 1]_vars

(***************************************************************************)
(* Claims about the items sent in one run (SpecSend).                      *)
(***************************************************************************)

\* C17: one run sends at most MAX_ITEMS_TO_DELIVER items to Monday.com, and
\* no two items it sends have the same task title (equal titles are equal
\* after any normalisation).
C17_SendLimitAndNoDuplicates ==
    /\ Len(sent) <= MAX_ITEMS_TO_DELIVER
    /\ \A i, j \in 1..Len(sent) : sent[i] = sent[j] => i = j

(***************************************************************************)
(* Claims about the extraction with the LLM (checked under SpecExtract).   *)
(***************************************************************************)

\* C18: an extraction call that fails (the LLM is not reached, the breaker
\* rejects the call, the response is not 200, has no candidates, or its
\* text is unparsable or no array) returns an empty task list and leaves
\* the extraction cache as it was; no exception escapes
\* extract_tasks_from_transcript or extract_tasks_from_cache.
C18_FailedExtractionIsEmpty ==
    /\ [](~extraction.raised)
    /\ [][(lastOp'.op \in {"extract_tasks_from_transcript",
                           "extract_tasks_from_cache"}
           /\ extraction'.failed)
          => /\ extraction'.returned = 0
             /\ gemini_cache' = gemini_cache]_vars

\* C19 (checked under SpecClamp): every task record created from an LLM
\* response has its priority in {High, Medium, Low} and its status among
\* the six allowed values; a missing or out-of-set value of the response
\* is stored as Medium / To Do, never as it came.
C19_PriorityAndStatusClamped ==
    created_task.stored =>
        /\ created_task.priority \in PRIORITY_CHOICES
        /\ created_task.status \in STATUS_CHOICES
        /\ (created_task.in_priority \notin PRIORITY_CHOICES
               => created_task.priority = "Medium")
        /\ (created_task.in_status \notin STATUS_CHOICES
               => created_task.status = "To Do")

C21_BackendFailureIsCacheMiss ==
    cm_call.backend_raises =>
        /\ ~cm_call.raised
        /\ cm_call.op \in Getters => cm_call.result = "None"
        /\ cm_call.op = "is_cache_stale" => cm_call.result = "True"
        /\ cm_call.op = "set" => cm_call.result = "False"

(***************************************************************************)
(* Claims about the paginated fetch (checked under SpecPaginateLive).      *)
(***************************************************************************)

\* C22: _fetch_with_pagination always terminates: it issues at most
\* max_pages page requests, it stops at the first page that is empty, has
\* fewer than limit items, has an unexpected structure or fails, and it
\* returns the concatenation of the pages received so far.
C22_PaginationTerminates ==
    /\ [](paging.requests <= max_pages)
    /\ [](paging.status = "done"
            => paging.returned = Flatten(paging.received))
    /\ [][lastOp'.op = "page_request"
            => /\ (lastOp'.result \in {"empty", "short", "unexpected", "fail"}
                     => paging'.status = "done")
               /\ (lastOp'.result = "full"
                     => /\ Len(paging'.received[Len(paging'.received)]) = limit
                        /\ paging'.status = "done"
                              <=> paging'.requests = max_pages)]_vars
    /\ (paging.status = "running" ~> paging.status = "done")

\* the fetch that met max_pages full pages has stopped and returned them all
C22_Witness ==
    /\ paging.status = "done"
    /\ paging.requests = max_pages
    /\ paging.last = "full"
    /\ Len(paging.returned) = max_pages * limit

\* C27: successive page requests of one _fetch_with_pagination call ask
\* for different pages, so the accumulated list, which is cached and
\* returned, holds each upstream transcript id at most once.
C27_NoTranscriptTwice ==
    \A i, j \in 1..Len(paging.all_transcripts) :
        paging.all_transcripts[i].id = paging.all_transcripts[j].id => i = j

\* C23 (checked under SpecKeys): when mark_key_unavailable is called again
\* on a key whose earlier reactivation timer is still pending, the key
\* stays inactive until the duration of the most recent call has elapsed:
\* a reactivate_key thread that wakes up before then leaves the key
\* inactive.
C23_LatestCooldownWins ==
    [][\A k \in Keys :
          (/\ lastOp'.op = "reactivate_key"
           /\ lastOp'.key = k
           /\ \E tm \in timers' : tm.key = k
           /\ now' < cooldown_until'[k])
          => ~key_status'[k].active]_vars

\* C24: every Half-Open episode needs success_threshold successes recorded
\* during that episode before the breaker closes.  A success in Half-Open
\* adds one to success_count and the breaker closes when the count reaches
\* success_threshold (C6), so the claim says that an episode starts
\* counting at zero: successes of an earlier episode are not carried over.
C24_EpisodeCountsFromZero ==
    [][(cb.state # "HALF_OPEN" /\ cb'.state = "HALF_OPEN")
          => cb'.success_count = 0]_vars

\* C25: a success recorded while the breaker is Closed changes only
\* last_success_time: failure_count, state and success_count stay as they
\* were, so failures add up towards failure_threshold across intervening
\* successes.
C25_ClosedSuccessKeepsFailures ==
    [][(cb.state = "CLOSED" /\ lastOp'.op = "record_success")
          => cb' = [cb EXCEPT !.last_success_time = now]]_vars

\* a success has just been recorded in a Closed breaker that had counted
\* failure_threshold - 1 failures, and the count is still there
C25_Witness ==
    /\ lastOp.op = "record_success"
    /\ cb.state = "CLOSED"
    /\ cb.failure_count = failure_threshold - 1
    /\ cb.last_success_time = now

\* C26 (checked under SpecExtract): the extraction cache never returns
\* tasks computed from a different transcript: a result served from the
\* cache for a transcript was produced from a transcript with the same
\* content (sentences, attendees, summary), not only the same title, date,
\* organizer and sentence count.
C26_CachedResultFromSameContent ==
    extraction.outcome = "cache_hit"
        => extraction.from_content = extraction.content

(***************************************************************************)
(* Claims about the Monday item ids stored on ActionItems (checked under   *)
(* SpecPipeline).                                                          *)
(***************************************************************************)

\* C28: every ActionItem marked 'delivered' by process_transcript carries
\* the id of the Monday item that was created from that same task's data,
\* even when storing an earlier extracted task failed.
C28_DeliveredItemIdIsOwnTask ==
    \A j \in 1..Len(action_items) :
        action_items[j].status = "delivered" =>
            \E r \in create_requests :
                /\ r.source = "bulk_create_tasks"
                /\ r.task = action_items[j].run * 10 + action_items[j].task
                /\ r.item = action_items[j].monday_item_id

(***************************************************************************)
(* Claims about get_today_transcripts (checked under SpecToday).           *)
(***************************************************************************)

\* C29: get_today_transcripts never caches a result derived from a failed
\* upstream fetch: no today entry holds the result of a failed fetch, and
\* a call made while such an empty entry would still be served (same UTC
\* date, timeout not passed) fetches again instead of returning it.
C29_FailedFetchNotCached ==
    /\ [](today_cache.present => ~today_cache.fetch_failed)
    /\ [][(/\ lastOp'.op = "get_today_transcripts"
           /\ today_cache.present
           /\ today_cache.fetch_failed
           /\ today_cache.transcripts = <<>>)
             => ~today_call'.from_cache]_vars

(***************************************************************************)
(* Claims about delivered ProcessedTaskData rows (checked under            *)
(* SpecDeliver).                                                           *)
(***************************************************************************)

\* C30: in every reachable state a ProcessedTaskData whose delivery_status
\* is 'delivered' has a non-empty monday_item_id and a non-null
\* delivered_at, whichever operation set the status.
C30_DeliveredHasItemId ==
    \A i \in 1..Len(tasks) :
        tasks[i].delivery_status = "delivered" =>
            /\ tasks[i].monday_item_id # NoItem
            /\ tasks[i].delivered_at # NoTime

====
